---- MODULE Spec2Model ----
(***************************************************************************)
(* onnx-web: the device worker loop (api/onnx_web/worker/worker.py) and    *)
(* the panorama pipeline's input checks, tile views and denoising loop     *)
(* (api/onnx_web/diffusers/pipelines/panorama.py), with the two diffusion  *)
(* stages that call it (api/onnx_web/chain).                               *)
(***************************************************************************)
EXTENDS Integers, Sequences, FiniteSets, TLC

(***************************************************************************)
(* Bounds of the model.                                                    *)
(***************************************************************************)
\* jobs submitted to the pool in one behaviour
NumJobs == 2
\* workers (one per device) the pool may be started with
MaxWorkers == 2
\* largest canvas side of the tile-view inputs, in latent cells
MaxLatent == 5
\* largest window of the tile-view inputs, in latent cells
MaxWindow == 4
\* largest stride of the tile-view inputs, in latent cells
MaxStride == 3
\* images a stage may be handed
MaxImages == 4
\* largest canvas side of the denoising-loop inputs, in latent cells
MaxSide == 3
\* most iterations of the denoising loop
MaxSteps == 3

(***************************************************************************)
(* Program constants.                                                      *)
(***************************************************************************)
\* the factor check_inputs and get_views divide pixel sizes by
LATENT_FACTOR == 8
DEFAULT_WINDOW == 32
DEFAULT_STRIDE == 8

JobIds == 1 .. NumJobs
WorkerIds == 1 .. MaxWorkers

(***************************************************************************)
(* Arguments of a pipeline call.  A prompt is None, a str, or a list of    *)
(* `len` strings; embeddings are None or an array whose first dimension is *)
(* `shape`.  strength and guidance_scale are kept in hundredths and tenths *)
(* so that the comparisons of the code stay comparisons of integers.       *)
(* callback_steps ranges over the integers: the `is None` and              *)
(* `not isinstance(callback_steps, int)` arms of check_inputs are outside  *)
(* the modelled inputs.                                                    *)
(***************************************************************************)
NoneArg == [kind |-> "None", len |-> 0]
StrArg == [kind |-> "str", len |-> 1]
ListArg(n) == [kind |-> "list", len |-> n]
NoEmbeds == [given |-> FALSE, shape |-> 0]
Embeds(n) == [given |-> TRUE, shape |-> n]

BaseParams ==
    [mode |-> "txt2img", prompt |-> StrArg, negative_prompt |-> NoneArg,
     prompt_embeds |-> NoEmbeds, negative_prompt_embeds |-> NoEmbeds,
     height |-> 16, width |-> 16, callback_steps |-> 1,
     strength |-> 80, guidance_scale |-> 75]

\* the arguments of the jobs submitted to the pool: a call that passes the
\* pipeline's checks, and one that does not
PoolParamSet ==
    { BaseParams,
      [BaseParams EXCEPT !.height = 12] }

\* the arguments a single job may carry
JobParamSet ==
    { BaseParams,
      [BaseParams EXCEPT !.mode = "img2img"],
      [BaseParams EXCEPT !.mode = "img2img", !.height = 64, !.width = 64],
      [BaseParams EXCEPT !.mode = "img2img", !.height = 72, !.width = 64],
      [BaseParams EXCEPT !.mode = "img2img", !.height = 64, !.width = 16],
      [BaseParams EXCEPT !.mode = "img2img", !.height = 64, !.width = 64,
                         !.prompt = ListArg(2), !.negative_prompt = ListArg(1)],
      [BaseParams EXCEPT !.height = 12],
      [BaseParams EXCEPT !.mode = "img2img", !.width = 20],
      [BaseParams EXCEPT !.mode = "img2img", !.callback_steps = 0],
      [BaseParams EXCEPT !.mode = "img2img", !.strength = 150],
      [BaseParams EXCEPT !.mode = "img2img", !.strength = -10],
      [BaseParams EXCEPT !.strength = 150],
      [BaseParams EXCEPT !.prompt = ListArg(2), !.negative_prompt = ListArg(1)],
      [BaseParams EXCEPT !.prompt = ListArg(2), !.negative_prompt = ListArg(1),
                         !.guidance_scale = 10] }

\* check_inputs, were the test of height and width left out
check_inputs_no_size(prompt, height, width, callback_steps, negative_prompt, prompt_embeds, negative_prompt_embeds) ==
    IF callback_steps <= 0
      THEN "ValueError: callback_steps"
    ELSE IF prompt.kind /= "None" /\ prompt_embeds.given
      THEN "ValueError: both prompt and prompt_embeds"
    ELSE IF prompt.kind = "None" /\ ~prompt_embeds.given
      THEN "ValueError: neither prompt nor prompt_embeds"
    ELSE IF prompt.kind /= "None" /\ prompt.kind \notin {"str", "list"}
      THEN "ValueError: prompt type"
    ELSE IF negative_prompt.kind /= "None" /\ negative_prompt_embeds.given
      THEN "ValueError: both negative_prompt and negative_prompt_embeds"
    ELSE IF prompt_embeds.given /\ negative_prompt_embeds.given
            /\ prompt_embeds.shape /= negative_prompt_embeds.shape
      THEN "ValueError: embeds shape"
    ELSE "ok"

(***************************************************************************)
(* check_inputs: "ok", or the error it raises.                             *)
(***************************************************************************)
check_inputs(prompt, height, width, callback_steps, negative_prompt, prompt_embeds, negative_prompt_embeds) ==
    IF height % LATENT_FACTOR /= 0 \/ width % LATENT_FACTOR /= 0
      THEN "ValueError: height and width"
    ELSE IF callback_steps <= 0
      THEN "ValueError: callback_steps"
    ELSE IF prompt.kind /= "None" /\ prompt_embeds.given
      THEN "ValueError: both prompt and prompt_embeds"
    ELSE IF prompt.kind = "None" /\ ~prompt_embeds.given
      THEN "ValueError: neither prompt nor prompt_embeds"
    ELSE IF prompt.kind /= "None" /\ prompt.kind \notin {"str", "list"}
      THEN "ValueError: prompt type"
    ELSE IF negative_prompt.kind /= "None" /\ negative_prompt_embeds.given
      THEN "ValueError: both negative_prompt and negative_prompt_embeds"
    ELSE IF prompt_embeds.given /\ negative_prompt_embeds.given
            /\ prompt_embeds.shape /= negative_prompt_embeds.shape
      THEN "ValueError: embeds shape"
    ELSE "ok"

(***************************************************************************)
(* _encode_prompt, as far as it can raise: the checks of the negative      *)
(* prompt against the prompt under classifier-free guidance.               *)
(***************************************************************************)
encode_prompt_check(prompt, do_classifier_free_guidance, negative_prompt, prompt_embeds, negative_prompt_embeds) ==
    LET batch_size == IF prompt.kind = "str" THEN 1
                      ELSE IF prompt.kind = "list" THEN prompt.len
                      ELSE prompt_embeds.shape
    IN  IF do_classifier_free_guidance /\ ~negative_prompt_embeds.given
          THEN IF negative_prompt.kind = "None" THEN "ok"
               ELSE IF prompt.kind /= negative_prompt.kind
                 THEN "TypeError: negative_prompt type"
               ELSE IF negative_prompt.kind = "str" THEN "ok"
               ELSE IF batch_size /= negative_prompt.len
                 THEN "ValueError: negative_prompt batch size"
               ELSE "ok"
          ELSE "ok"

\* img2img's own check of strength (hundredths)
strength_check(strength) ==
    IF strength < 0 \/ strength > 100 THEN "ValueError: strength" ELSE "ok"

(***************************************************************************)
(* preprocess of the PIL image img2img is given (img2img reads the image's *)
(* height and width attributes): each side is rounded down to a multiple   *)
(* of 64 px and the image resized to that; a resize to a side of 0 raises. *)
(***************************************************************************)
preprocess_side(x) == x - (x % 64)
preprocess(height, width) ==
    [height |-> preprocess_side(height), width |-> preprocess_side(width)]
preprocess_check(height, width) ==
    IF preprocess(height, width).height <= 0 \/ preprocess(height, width).width <= 0
      THEN "ValueError: height and width must be > 0"
    ELSE "ok"

(***************************************************************************)
(* The checks a pipeline call makes before its denoising loop, in the      *)
(* order text2img and img2img make them: "ok", or the first error raised.  *)
(* img2img preprocesses its image after the test of strength and before    *)
(* it encodes the prompt.                                                  *)
(***************************************************************************)
pipeline_entry(p) ==
    LET c == check_inputs(p.prompt, p.height, p.width, p.callback_steps,
                          p.negative_prompt, p.prompt_embeds,
                          p.negative_prompt_embeds)
        s == IF p.mode = "img2img" THEN strength_check(p.strength) ELSE "ok"
        r == IF p.mode = "img2img" THEN preprocess_check(p.height, p.width) ELSE "ok"
        e == encode_prompt_check(p.prompt, p.guidance_scale > 10,
                                 p.negative_prompt, p.prompt_embeds,
                                 p.negative_prompt_embeds)
    IN  IF c /= "ok" THEN c ELSE IF s /= "ok" THEN s
        ELSE IF r /= "ok" THEN r ELSE e

(***************************************************************************)
(* State of the pool.                                                      *)
(*   workers   the workers started (fixed at construction)                 *)
(*   pending   context.pending, the shared queue of jobs                   *)
(*   submitted number of jobs put on the queue so far; job ids are given   *)
(*             in the order of submission                                  *)
(*   params    the arguments each submitted job carries                    *)
(*   pc        each worker's position in worker_init's loop                *)
(*   job       the job a worker holds (0: none)                            *)
(*   exc       the exception in flight in the worker: "none", or its class *)
(*   flags     each worker's cancellation flag                             *)
(*   result    what became of each job's pipeline invocation               *)
(* and, as history of what callers and the queue have seen:                *)
(*   dequeued  every pending.get() that returned, in order                 *)
(*   notes     per job, the notifications published for it, in order       *)
(*   enqAfter  per job, whether every job submitted before it already had  *)
(*             its final notification when it was put on the queue         *)
(*   cancelled per job, whether a cancellation was requested while it ran  *)
(* State of one call of get_views:                                         *)
(*   vin       its arguments; views: its result; vdone: whether it ran     *)
(* State of one pipeline call followed through its denoising loop:         *)
(*   call      the arguments of the caller (of the stage or the pipeline)  *)
(*   args      what the pipeline method received of them                   *)
(*   lpc       position in the loop; step: the loop index i; idx: index of *)
(*             the next view or region of the step                         *)
(*   latents, value, count   the canvas and the two accumulators           *)
(*   progress  the calls of the callback, in order                         *)
(* and, as history:                                                        *)
(*   before    the canvas the step resolved last began with                *)
(*   work      the views and regions denoised so far, in order             *)
(* State of one call of a chain stage or of a pipeline entry point:        *)
(*   sin       the operation called and its arguments                      *)
(*   sout      what the call returned or raised                            *)
(*   storage   the images written through save_image, in order             *)
(*   warnings  the warnings logged                                         *)
(***************************************************************************)
VARIABLES workers, pending, submitted, params, pc, job, exc, flags, result,
          dequeued, notes, enqAfter, cancelled,
          vin, views, vdone,
          call, args, region_embeds, lpc, step, idx, latents, value, count, before, progress, work,
          sin, sout, storage, warnings

viewVars == <<vin, views, vdone>>
loopVars == <<call, args, region_embeds, lpc, step, idx, latents, value, count, before, progress, work>>
stageVars == <<sin, sout, storage, warnings>>
vars == <<workers, pending, submitted, params, pc, job, exc, flags, result,
          dequeued, notes, enqAfter, cancelled, vin, views, vdone,
          call, args, region_embeds, lpc, step, idx, latents, value, count, before, progress, work,
          sin, sout, storage, warnings>>

Note(kind, w) == [kind |-> kind, worker |-> w]
Kinds(j) == { notes[j][i].kind : i \in 1 .. Len(notes[j]) }
Count(j, kind) == Cardinality({ i \in 1 .. Len(notes[j]) : notes[j][i].kind = kind })
Takes(j) == Cardinality({ i \in 1 .. Len(dequeued) : dequeued[i].job = j })
\* the job has been taken off the queue and its worker has let go of it
Handled(j) == Takes(j) > 0 /\ \A w \in workers : job[w] /= j
Raised(j) == result[j] \in {"rejected", "faulted"}

(***************************************************************************)
(* WorkerContext, as the worker uses it.                                   *)
(***************************************************************************)
\* context.clear_flags(): the worker's cancellation flag is reset
clear_flags(f, w) == [f EXCEPT ![w] = FALSE]
\* context.put_started(name): the started transition is published
put_started(n, name, w) == [n EXCEPT ![name] = Append(@, Note("started", w))]
\* context.put_finished(name): the final notification is published
put_finished(n, name, w) == [n EXCEPT ![name] = Append(@, Note("finished", w))]

\* what a call inside the try block may raise: an instance of Exception, or
\* of BaseException alone (SystemExit, KeyboardInterrupt)
ExceptionClasses == {"Exception", "BaseException"}
\* whether `except Exception` matches
caught(cls) == cls = "Exception"
\* where a raise inside the try block takes the worker: to the handler, or
\* past it to the finally clause
after_raise(cls) == IF caught(cls) THEN "except" ELSE "finally"

PoolInit ==
    /\ workers \in { 1 .. k : k \in WorkerIds }
    /\ pending = <<>>
    /\ submitted = 0
    /\ params = [j \in JobIds |-> BaseParams]
    /\ pc = [w \in WorkerIds |-> "get"]
    /\ job = [w \in WorkerIds |-> 0]
    /\ exc = [w \in WorkerIds |-> "none"]
    /\ flags = [w \in WorkerIds |-> FALSE]
    /\ result = [j \in JobIds |-> "none"]
    /\ dequeued = <<>>
    /\ notes = [j \in JobIds |-> <<>>]
    /\ enqAfter = [j \in JobIds |-> TRUE]
    /\ cancelled = [j \in JobIds |-> FALSE]

ViewsIdle ==
    /\ vin = [height |-> LATENT_FACTOR, width |-> LATENT_FACTOR, window |-> 1, stride |-> 1]
    /\ views = <<>>
    /\ vdone = FALSE

\* no pipeline call is being followed through its denoising loop
LoopIdle ==
    /\ call = [entry |-> "none"]
    /\ args = [mode |-> "none"]
    /\ region_embeds = <<>>
    /\ lpc = "off"
    /\ step = 0
    /\ idx = 0
    /\ latents = <<>>
    /\ value = <<>>
    /\ count = <<>>
    /\ before = <<>>
    /\ progress = <<>>
    /\ work = <<>>

\* no single stage or pipeline call is being followed
StageIdle ==
    /\ sin = [op |-> "none"]
    /\ sout = [done |-> FALSE]
    /\ storage = <<>>
    /\ warnings = 0

Init == PoolInit /\ ViewsIdle /\ LoopIdle /\ StageIdle

\* the dispatcher puts the next job, with its arguments, on the pending queue
Submit(argsets) ==
    /\ submitted < NumJobs
    /\ \E p \in argsets :
         params' = [params EXCEPT ![submitted + 1] = p]
    /\ submitted' = submitted + 1
    /\ pending' = Append(pending, submitted + 1)
    /\ enqAfter' = [enqAfter EXCEPT ![submitted + 1] =
                      \A j \in 1 .. submitted : "finished" \in Kinds(j)]
    /\ UNCHANGED <<workers, pc, job, exc, flags, result, dequeued, notes,
                   cancelled, viewVars, loopVars, stageVars>>

(***************************************************************************)
(* worker_init: one pass of `while True`, a step at a time.                *)
(***************************************************************************)
\* Get, were get() to return the head without removing it
GetPeek(w) ==
    /\ pc[w] = "get"
    /\ pending /= <<>>
    /\ job' = [job EXCEPT ![w] = Head(pending)]
    /\ pending' = pending
    /\ dequeued' = Append(dequeued, [job |-> Head(pending), worker |-> w])
    /\ pc' = [pc EXCEPT ![w] = "clear_flags"]
    /\ UNCHANGED <<workers, submitted, params, exc, flags, result, notes, enqAfter,
                   cancelled, viewVars, loopVars, stageVars>>

\* Get, were the queue to hand out its newest entry first
GetLast(w) ==
    /\ pc[w] = "get"
    /\ pending /= <<>>
    /\ job' = [job EXCEPT ![w] = pending[Len(pending)]]
    /\ pending' = SubSeq(pending, 1, Len(pending) - 1)
    /\ dequeued' = Append(dequeued, [job |-> pending[Len(pending)], worker |-> w])
    /\ pc' = [pc EXCEPT ![w] = "clear_flags"]
    /\ UNCHANGED <<workers, submitted, params, exc, flags, result, notes, enqAfter,
                   cancelled, viewVars, loopVars, stageVars>>

\* Get, were the worker to take the next job while its pipeline still runs
GetWhileRunning(w) ==
    /\ pc[w] \in {"get", "run"}
    /\ pending /= <<>>
    /\ job' = [job EXCEPT ![w] = Head(pending)]
    /\ pending' = Tail(pending)
    /\ dequeued' = Append(dequeued, [job |-> Head(pending), worker |-> w])
    /\ pc' = [pc EXCEPT ![w] = "clear_flags"]
    /\ UNCHANGED <<workers, submitted, params, exc, flags, result, notes, enqAfter,
                   cancelled, viewVars, loopVars, stageVars>>

\* job = context.pending.get(): the head of the shared queue is taken
Get(w) ==
    /\ pc[w] = "get"
    /\ pending /= <<>>
    /\ job' = [job EXCEPT ![w] = Head(pending)]
    /\ pending' = Tail(pending)
    /\ dequeued' = Append(dequeued, [job |-> Head(pending), worker |-> w])
    /\ pc' = [pc EXCEPT ![w] = "clear_flags"]
    /\ UNCHANGED <<workers, submitted, params, exc, flags, result, notes, enqAfter, cancelled, viewVars, loopVars, stageVars>>

\* ClearFlags, were the call to clear_flags left out
ClearFlagsSkipped(w) ==
    /\ pc[w] = "clear_flags"
    /\ flags' = flags
    /\ pc' = [pc EXCEPT ![w] = "put_started"]
    /\ UNCHANGED <<workers, pending, submitted, params, job, exc, result,
                   dequeued, notes, enqAfter, cancelled, viewVars, loopVars, stageVars>>

\* try: context.clear_flags()
ClearFlags(w) ==
    /\ pc[w] = "clear_flags"
    /\ flags' = clear_flags(flags, w)
    /\ pc' = [pc EXCEPT ![w] = "put_started"]
    /\ UNCHANGED <<workers, pending, submitted, params, job, exc, result,
                   dequeued, notes, enqAfter, cancelled, viewVars, loopVars, stageVars>>

\* context.clear_flags() raises inside the try block
ClearFlagsRaises(w) ==
    /\ pc[w] = "clear_flags"
    /\ \E cls \in ExceptionClasses :
          /\ exc' = [exc EXCEPT ![w] = cls]
          /\ pc' = [pc EXCEPT ![w] = after_raise(cls)]
    /\ UNCHANGED <<workers, pending, submitted, params, job, flags, result,
                   dequeued, notes, enqAfter, cancelled, viewVars, loopVars, stageVars>>

\* context.put_started(name)
PutStarted(w) ==
    /\ pc[w] = "put_started"
    /\ notes' = put_started(notes, job[w], w)
    /\ pc' = [pc EXCEPT ![w] = "fn"]
    /\ UNCHANGED <<workers, pending, submitted, params, job, exc, flags, result,
                   dequeued, enqAfter, cancelled, viewVars, loopVars, stageVars>>

\* context.put_started(name) raises inside the try block
PutStartedRaises(w) ==
    /\ pc[w] = "put_started"
    /\ \E cls \in ExceptionClasses :
          /\ exc' = [exc EXCEPT ![w] = cls]
          /\ pc' = [pc EXCEPT ![w] = after_raise(cls)]
    /\ UNCHANGED <<workers, pending, submitted, params, job, flags, result,
                   dequeued, notes, enqAfter, cancelled, viewVars, loopVars, stageVars>>

\* fn(context, *args, **kwargs) is called: the pipeline checks its inputs
\* and either raises or goes on to denoise
PipelineEnter(w) ==
    /\ pc[w] = "fn"
    /\ IF pipeline_entry(params[job[w]]) = "ok"
         THEN /\ result' = [result EXCEPT ![job[w]] = "running"]
              /\ pc' = [pc EXCEPT ![w] = "run"]
              /\ exc' = exc
         ELSE /\ result' = [result EXCEPT ![job[w]] = "rejected"]
              /\ pc' = [pc EXCEPT ![w] = after_raise("Exception")]
              /\ exc' = [exc EXCEPT ![w] = "Exception"]
    /\ UNCHANGED <<workers, pending, submitted, params, job, flags,
                   dequeued, notes, enqAfter, cancelled, viewVars, loopVars, stageVars>>

\* the pipeline returns; logger.info("job succeeded")
PipelineReturn(w) ==
    /\ pc[w] = "run"
    /\ result' = [result EXCEPT ![job[w]] = "returned"]
    /\ pc' = [pc EXCEPT ![w] = "finally"]
    /\ UNCHANGED <<workers, pending, submitted, params, job, exc, flags,
                   dequeued, notes, enqAfter, cancelled, viewVars, loopVars, stageVars>>

\* a model, codec or storage capability raises while the pipeline runs, or
\* the process is interrupted or told to exit
PipelineFault(w) ==
    /\ pc[w] = "run"
    /\ result' = [result EXCEPT ![job[w]] = "faulted"]
    /\ \E cls \in ExceptionClasses :
          /\ exc' = [exc EXCEPT ![w] = cls]
          /\ pc' = [pc EXCEPT ![w] = after_raise(cls)]
    /\ UNCHANGED <<workers, pending, submitted, params, job, flags,
                   dequeued, notes, enqAfter, cancelled, viewVars, loopVars, stageVars>>

\* a cancellation is requested for the job the worker is running
SetCancel(w) ==
    /\ pc[w] = "run"
    /\ ~flags[w]
    /\ flags' = [flags EXCEPT ![w] = TRUE]
    /\ cancelled' = [cancelled EXCEPT ![job[w]] = TRUE]
    /\ UNCHANGED <<workers, pending, submitted, params, pc, job, exc, result,
                   dequeued, notes, enqAfter, viewVars, loopVars, stageVars>>

\* except Exception as e: logger.error(...); the worker is at "except" only
\* with an exception the clause matches
Except(w) ==
    /\ pc[w] = "except"
    /\ exc' = [exc EXCEPT ![w] = "none"]
    /\ pc' = [pc EXCEPT ![w] = "finally"]
    /\ UNCHANGED <<workers, pending, submitted, params, job, flags, result,
                   dequeued, notes, enqAfter, cancelled, viewVars, loopVars, stageVars>>

\* Finally, were put_finished called on the success path only
FinallyOnSuccessOnly(w) ==
    /\ pc[w] = "finally"
    /\ notes' = IF result[job[w]] = "returned"
                  THEN put_finished(notes, job[w], w) ELSE notes
    /\ pc' = [pc EXCEPT ![w] = IF exc[w] /= "none" THEN "dead" ELSE "get"]
    /\ job' = [job EXCEPT ![w] = 0]
    /\ UNCHANGED <<workers, pending, submitted, params, exc, flags, result,
                   dequeued, enqAfter, cancelled, viewVars, loopVars, stageVars>>

\* finally: context.put_finished(name); then the loop goes round, unless an
\* exception is still in flight, which ends worker_init
Finally(w) ==
    /\ pc[w] = "finally"
    /\ notes' = put_finished(notes, job[w], w)
    /\ pc' = [pc EXCEPT ![w] = IF exc[w] /= "none" THEN "dead" ELSE "get"]
    /\ job' = [job EXCEPT ![w] = 0]
    /\ UNCHANGED <<workers, pending, submitted, params, exc, flags, result,
                   dequeued, enqAfter, cancelled, viewVars, loopVars, stageVars>>

\* the steps of worker_init itself
WorkerLoop(w) ==
    \/ Get(w)
    \/ ClearFlags(w)
    \/ ClearFlagsRaises(w)
    \/ PutStarted(w)
    \/ PutStartedRaises(w)
    \/ PipelineEnter(w)
    \/ PipelineReturn(w)
    \/ PipelineFault(w)
    \/ Except(w)
    \/ Finally(w)

\* a worker's steps, and the cancellation another process may request of it
Worker(w) ==
    \/ WorkerLoop(w)
    \/ SetCancel(w)

Next ==
    \/ Submit(PoolParamSet)
    \/ \E w \in workers : Worker(w)

Spec == Init /\ [][Next]_vars

\* the pool under fair scheduling, no cancellation being requested: a worker
\* process that can take a step (the queue is not empty, or it is inside its
\* loop body, where every call it makes returns or raises) eventually takes
\* one
NextFair ==
    \/ Submit(PoolParamSet)
    \/ \E w \in workers : WorkerLoop(w)

Fairness == \A w \in WorkerIds : WF_vars(w \in workers /\ WorkerLoop(w))

SpecFair == Init /\ [][NextFair]_vars /\ Fairness

\* one worker, and jobs over the whole range of arguments
NextJob ==
    \/ Submit(JobParamSet)
    \/ \E w \in workers : Worker(w)

InitJob == Init /\ workers = {1}

SpecJob == InitJob /\ [][NextJob]_vars

(***************************************************************************)
(* get_views: the tile windows of a canvas.  panorama_height and           *)
(* panorama_width are pixel sizes that check_inputs has found divisible by *)
(* 8, so the true division by 8 is exact; `//` rounds towards minus        *)
(* infinity, as \div does.  A view is <<h_start, h_end, w_start, w_end>>.  *)
(***************************************************************************)
Abs(x) == IF x < 0 THEN -x ELSE x

\* the number of blocks, were the quotient rounded up
num_blocks_rounded_up(panorama_side, window_size, stride) ==
    Abs(((panorama_side \div LATENT_FACTOR) - window_size + stride - 1) \div stride) + 1

num_blocks(panorama_side, window_size, stride) ==
    Abs(((panorama_side \div LATENT_FACTOR) - window_size) \div stride) + 1

get_views_column_major(panorama_height, panorama_width, window_size, stride) ==
    LET num_blocks_height == num_blocks(panorama_height, window_size, stride)
        num_blocks_width == num_blocks(panorama_width, window_size, stride)
        total_num_blocks == num_blocks_height * num_blocks_width
    IN  [n \in 1 .. total_num_blocks |->
            LET i == n - 1
                h_start == (i % num_blocks_height) * stride
                w_start == (i \div num_blocks_height) * stride
            IN  <<h_start, h_start + window_size, w_start, w_start + window_size>>]

get_views(panorama_height, panorama_width, window_size, stride) ==
    LET num_blocks_height == num_blocks(panorama_height, window_size, stride)
        num_blocks_width == num_blocks(panorama_width, window_size, stride)
        total_num_blocks == num_blocks_height * num_blocks_width
    IN  [n \in 1 .. total_num_blocks |->
            LET i == n - 1
                h_start == (i \div num_blocks_width) * stride
                w_start == (i % num_blocks_width) * stride
            IN  <<h_start, h_start + window_size, w_start, w_start + window_size>>]

(***************************************************************************)
(* The tile views of one pipeline call: the canvas and the pipeline's      *)
(* window and stride are drawn, then get_views is applied to them.         *)
(***************************************************************************)
\* a 1024 x 512 pixel panorama (width x height) under the default window and stride
DefaultPanorama == [height |-> 512, width |-> 1024, window |-> DEFAULT_WINDOW, stride |-> DEFAULT_STRIDE]

ViewsInit ==
    /\ vin \in [height : { LATENT_FACTOR * k : k \in 1 .. MaxLatent },
                width : { LATENT_FACTOR * k : k \in 1 .. MaxLatent },
                window : 1 .. MaxWindow,
                stride : 1 .. MaxStride] \cup {DefaultPanorama}
    /\ views = <<>>
    /\ vdone = FALSE

PoolIdle ==
    /\ workers = {1}
    /\ pending = <<>>
    /\ submitted = 0
    /\ params = [j \in JobIds |-> BaseParams]
    /\ pc = [w \in WorkerIds |-> "get"]
    /\ job = [w \in WorkerIds |-> 0]
    /\ exc = [w \in WorkerIds |-> "none"]
    /\ flags = [w \in WorkerIds |-> FALSE]
    /\ result = [j \in JobIds |-> "none"]
    /\ dequeued = <<>>
    /\ notes = [j \in JobIds |-> <<>>]
    /\ enqAfter = [j \in JobIds |-> TRUE]
    /\ cancelled = [j \in JobIds |-> FALSE]

\* views = self.get_views(height, width, self.window, self.stride)
ComputeViews ==
    /\ ~vdone
    /\ views' = get_views(vin.height, vin.width, vin.window, vin.stride)
    /\ vdone' = TRUE
    /\ UNCHANGED <<vin, workers, pending, submitted, params, pc, job, exc, flags,
                   result, dequeued, notes, enqAfter, cancelled, loopVars, stageVars>>

InitViews == PoolIdle /\ ViewsInit /\ LoopIdle /\ StageIdle

SpecViews == InitViews /\ [][ComputeViews]_vars

\* the latent cells of the canvas, and those a view contains
LatentH == vin.height \div LATENT_FACTOR
LatentW == vin.width \div LATENT_FACTOR
Covers(v, h, w) == v[1] <= h /\ h < v[2] /\ v[3] <= w /\ w < v[4]
Covered(h, w) == \E n \in 1 .. Len(views) : Covers(views[n], h, w)

\* C10: for every canvas and every window/stride pair, every latent cell of
\* the canvas lies in at least one of the views get_views returns.
C10_EveryCellCovered ==
    vdone => \A h \in 0 .. LatentH - 1 : \A w \in 0 .. LatentW - 1 : Covered(h, w)

\* the block counts of the two axes, as the formula |(side - window) / stride| + 1
\* with the quotient rounded down
BlocksH == Abs((LatentH - vin.window) \div vin.stride) + 1
BlocksW == Abs((LatentW - vin.window) \div vin.stride) + 1

\* C11: get_views returns exactly nH * nW views in row-major order, the i-th
\* (from 0) being (h_start, h_start + window, w_start, w_start + window) with
\* h_start = (i div nW) * stride and w_start = (i mod nW) * stride; the
\* 1024 x 512 panorama with window 32 and stride 8 has 65 views, the first
\* of them (0, 32, 0, 32).
C11_RowMajorViews ==
    vdone =>
        /\ Len(views) = BlocksH * BlocksW
        /\ \A i \in 0 .. Len(views) - 1 :
              views[i + 1] = << (i \div BlocksW) * vin.stride,
                                (i \div BlocksW) * vin.stride + vin.window,
                                (i % BlocksW) * vin.stride,
                                (i % BlocksW) * vin.stride + vin.window >>
        /\ vin = DefaultPanorama => Len(views) = 65 /\ views[1] = <<0, 32, 0, 32>>

\* the default panorama has been cut into its 65 views, 5 rows of 13
C11_DefaultPanoramaCut ==
    /\ vdone
    /\ vin = DefaultPanorama
    /\ Len(views) = 65
    /\ views[14] = <<8, 40, 0, 32>>

\* C12: when the window is larger than the canvas in a dimension, get_views
\* makes exactly one block in that dimension.
C12_OversizedWindowOneBlock ==
    vdone =>
        /\ vin.window > LatentH => \A n \in 1 .. Len(views) : views[n][1] = 0
        /\ vin.window > LatentW => \A n \in 1 .. Len(views) : views[n][3] = 0

\* C28: a view reaches past the bottom (right) edge of the canvas only when
\* the window is taller (wider) than the canvas; so when the window fits the
\* canvas in both dimensions, every view lies inside the canvas.
C28_ViewsInsideCanvas ==
    vdone =>
        \A n \in 1 .. Len(views) :
            /\ views[n][1] >= 0 /\ views[n][3] >= 0
            /\ views[n][2] > LatentH => vin.window > LatentH
            /\ views[n][4] > LatentW => vin.window > LatentW

\* a canvas cut into several rows and columns of views by a window that fits
\* it, the stride not dividing the remainder: the last view ends short of
\* the bottom right corner
C28_FittingWindowSeveralViews ==
    /\ vdone
    /\ vin.window <= LatentH /\ vin.window <= LatentW
    /\ BlocksH > 1 /\ BlocksW > 1
    /\ (LatentH - vin.window) % vin.stride /= 0
    /\ (LatentW - vin.window) % vin.stride /= 0
    /\ views[Len(views)][2] < LatentH
    /\ views[Len(views)][4] < LatentW

(***************************************************************************)
(* The denoising loop of the panorama pipeline (text2img, img2img and      *)
(* inpaint), entered directly or through a diffusion stage.                *)
(*                                                                         *)
(* The canvas is one channel of one image: a function from latent cells    *)
(* <<row, column>> to numbers.  Numbers are exact fractions <<n, d>> in    *)
(* lowest terms with d > 0; <<0, 0>> stands for any non-finite value       *)
(* (NaN or Inf), which every arithmetic operation propagates.              *)
(***************************************************************************)
RECURSIVE GCD(_, _)
GCD(a, b) == IF b = 0 THEN a ELSE GCD(b, a % b)

NaN == <<0, 0>>
Zero == <<0, 1>>
One == <<1, 1>>
Num(i) == <<i, 1>>
IsFinite(a) == a[2] # 0
Frac(n, d) ==
    IF d = 0 THEN NaN
    ELSE LET g == GCD(Abs(n), Abs(d))
             s == IF d < 0 THEN -1 ELSE 1
         IN  <<(s * n) \div g, (s * d) \div g>>
RAdd(a, b) ==
    IF ~IsFinite(a) \/ ~IsFinite(b) THEN NaN
    ELSE LET g == GCD(a[2], b[2])
         IN  Frac(a[1] * (b[2] \div g) + b[1] * (a[2] \div g), a[2] * (b[2] \div g))
RSub(a, b) == RAdd(a, <<-b[1], b[2]>>)
RMul(a, b) ==
    IF ~IsFinite(a) \/ ~IsFinite(b) THEN NaN
    ELSE LET g1 == GCD(Abs(a[1]), b[2])
             g2 == GCD(Abs(b[1]), a[2])
         IN  Frac((a[1] \div g1) * (b[1] \div g2), (a[2] \div g2) * (b[2] \div g1))
RDiv(a, b) == IF ~IsFinite(b) \/ b[1] = 0 THEN NaN ELSE RMul(a, Frac(b[2], b[1]))
\* count > 0 (a comparison with a non-finite value is false)
RPos(a) == IsFinite(a) /\ a[1] > 0
RMin(a, b) == IF a[1] * b[2] <= b[1] * a[2] THEN a ELSE b

\* the cells of the latent canvas of the call, and a slice [h0:h1, w0:w1] of
\* it (numpy clips a slice to the array)
\* the size in px of what a call denoises: text2img and inpaint make latents
\* of (height // 8, width // 8) cells, img2img encodes the preprocessed image
canvas(c) ==
    IF c.mode = "img2img" THEN preprocess(c.height, c.width)
    ELSE [height |-> c.height, width |-> c.width]
Cells == (0 .. (canvas(call).height \div LATENT_FACTOR) - 1) \X (0 .. (canvas(call).width \div LATENT_FACTOR) - 1)
Slice(h_start, h_end, w_start, w_end) ==
    { c \in Cells : h_start <= c[1] /\ c[1] < h_end /\ w_start <= c[2] /\ c[2] < w_end }
ZerosLike == [c \in Cells |-> Zero]

\* the initial noise of the call, a fixed pattern per seed
get_latents_from_seed(seed) ==
    [c \in Cells |-> Num(((3 * c[1] + 5 * c[2] + 7 * seed) % 5) - 2)]

\* self.scheduler.timesteps[i] of a loop of n iterations, counting down
timestep(n, i) == n - i

\* noise prediction of the UNet (with guidance) for one cell of a tile: it
\* depends on the timestep, on the conditioning and on where the cell lies
\* in the tile; a numerical fault makes it non-finite
unet(t, embeds, rel, fault) ==
    IF fault /\ rel = <<0, 0>> THEN NaN ELSE Num(embeds * t + rel[1] + rel[2])

\* self.scheduler.step(noise_pred, t, sample).prev_sample
scheduler_step(noise_pred, t, sample) == RSub(sample, noise_pred)

\* prompts are sequences of tokens; SPACE and PLUS are the characters " "
\* and "+"
SPACE == 0
PLUS == 4
\* the conditioning the text encoder makes of a prompt: it depends on every
\* token and on its position
RECURSIVE encode_prompt(_)
encode_prompt(prompt) ==
    IF prompt = <<>> THEN 0
    ELSE Len(prompt) * prompt[Len(prompt)] + encode_prompt(SubSeq(prompt, 1, Len(prompt) - 1))
\* prompt_embeds of the call
prompt_embeds == encode_prompt(call.prompt)

\* the embedding of a region, with the global prompt appended to every
\* region prompt
region_prompt_embeds_always_global(region_prompt, prompt) ==
    IF region_prompt # <<>> /\ region_prompt[Len(region_prompt)] = PLUS
    THEN encode_prompt(SubSeq(region_prompt, 1, Len(region_prompt) - 1) \o <<SPACE>> \o prompt)
    ELSE encode_prompt(region_prompt \o <<SPACE>> \o prompt)

\* the embedding of a region: of its own prompt, or, if that ends in "+", of
\* the prompt without the "+", a space and the global prompt
region_prompt_embeds(region_prompt, prompt) ==
    IF region_prompt # <<>> /\ region_prompt[Len(region_prompt)] = PLUS
    THEN encode_prompt(SubSeq(region_prompt, 1, Len(region_prompt) - 1) \o <<SPACE>> \o prompt)
    ELSE encode_prompt(region_prompt)

\* one base view: the slice of the canvas at the view is denoised and added
\* to value, and count is incremented there
latents_view_denoised(lat, v, t, fault, c) ==
    scheduler_step(unet(t, prompt_embeds, <<c[1] - v[1], c[2] - v[3]>>, fault), t, lat[c])

denoise_view_from_partial(lat, acc, v, t, fault) ==
    LET tile == Slice(v[1], v[2], v[3], v[4])
        partial == [c \in Cells |-> IF RPos(acc.count[c]) THEN RDiv(acc.value[c], acc.count[c]) ELSE lat[c]]
    IN  [value |-> [c \in Cells |-> IF c \in tile
                                    THEN RAdd(acc.value[c], latents_view_denoised(partial, v, t, fault, c))
                                    ELSE acc.value[c]],
         count |-> [c \in Cells |-> IF c \in tile THEN RAdd(acc.count[c], One) ELSE acc.count[c]]]

\* one base view, counted twice
denoise_view_weight_two(lat, acc, v, t, fault) ==
    LET tile == Slice(v[1], v[2], v[3], v[4])
    IN  [value |-> [c \in Cells |-> IF c \in tile
                                    THEN RAdd(acc.value[c], latents_view_denoised(lat, v, t, fault, c))
                                    ELSE acc.value[c]],
         count |-> [c \in Cells |-> IF c \in tile THEN RAdd(acc.count[c], Num(2)) ELSE acc.count[c]]]

denoise_view(lat, acc, v, t, fault) ==
    LET tile == Slice(v[1], v[2], v[3], v[4])
    IN  [value |-> [c \in Cells |-> IF c \in tile
                                    THEN RAdd(acc.value[c], latents_view_denoised(lat, v, t, fault, c))
                                    ELSE acc.value[c]],
         count |-> [c \in Cells |-> IF c \in tile THEN RAdd(acc.count[c], One) ELSE acc.count[c]]]

\* the latent rectangle of a region
region_box(region) ==
    << region.top \div LATENT_FACTOR, region.bottom \div LATENT_FACTOR,
       region.left \div LATENT_FACTOR, region.right \div LATENT_FACTOR >>

\* the feather mask of a tile of the given shape: 1 inside, falling to 0 at
\* the border of the tile over the feather distance of each axis
ramp(i, n, f) ==
    IF f = 0 THEN One
    ELSE RMin(One, Frac(IF i < n - 1 - i THEN i ELSE n - 1 - i, f))
make_tile_mask(rows, cols, feather_x, feather_y, rel) ==
    RMul(ramp(rel[1], rows, feather_y), ramp(rel[2], cols, feather_x))

region_mask(region, c) ==
    LET box == region_box(region)
    IN  IF region.feather[1] > 0
        THEN make_tile_mask(box[2] - box[1], box[4] - box[3], region.feather[1], region.feather[2],
                            <<c[1] - box[1], c[2] - box[3]>>)
        ELSE One

latents_region_denoised(lat, region, embeds, t, c) ==
    LET box == region_box(region)
    IN  scheduler_step(unet(t, embeds, <<c[1] - box[1], c[2] - box[3]>>, FALSE), t, lat[c])

\* one region, added to value and count whatever its weight
denoise_region_always_adds(lat, acc, region, embeds, t) ==
    LET box == region_box(region)
        tile == Slice(box[1], box[2], box[3], box[4])
        den(c) == latents_region_denoised(lat, region, embeds, t, c)
        mask(c) == region_mask(region, c)
    IN  [value |-> [c \in Cells |->
                      IF c \in tile
                      THEN RAdd(acc.value[c], RMul(RMul(den(c), Num(region.weight)), mask(c)))
                      ELSE acc.value[c]],
         count |-> [c \in Cells |->
                      IF c \in tile
                      THEN RAdd(acc.count[c], RMul(Num(region.weight), mask(c)))
                      ELSE acc.count[c]]]

\* one region, with its weight left out of the sums
denoise_region_unweighted(lat, acc, region, embeds, t) ==
    LET box == region_box(region)
        tile == Slice(box[1], box[2], box[3], box[4])
        den(c) == latents_region_denoised(lat, region, embeds, t, c)
        mask(c) == region_mask(region, c)
    IN  IF region.weight >= 100
        THEN [value |-> [c \in Cells |-> IF c \in tile THEN RMul(den(c), mask(c)) ELSE acc.value[c]],
              count |-> [c \in Cells |-> IF c \in tile THEN mask(c) ELSE acc.count[c]]]
        ELSE [value |-> [c \in Cells |-> IF c \in tile THEN RAdd(acc.value[c], RMul(den(c), mask(c))) ELSE acc.value[c]],
              count |-> [c \in Cells |-> IF c \in tile THEN RAdd(acc.count[c], mask(c)) ELSE acc.count[c]]]

\* one region, overriding value and count whatever its weight
denoise_region_always_overrides(lat, acc, region, embeds, t) ==
    LET box == region_box(region)
        tile == Slice(box[1], box[2], box[3], box[4])
        den(c) == latents_region_denoised(lat, region, embeds, t, c)
        mask(c) == region_mask(region, c)
    IN  [value |-> [c \in Cells |-> IF c \in tile THEN RMul(den(c), mask(c)) ELSE acc.value[c]],
         count |-> [c \in Cells |-> IF c \in tile THEN mask(c) ELSE acc.count[c]]]

\* one region: override value and count in its rectangle, or add to them
denoise_region(lat, acc, region, embeds, t) ==
    LET box == region_box(region)
        tile == Slice(box[1], box[2], box[3], box[4])
        den(c) == latents_region_denoised(lat, region, embeds, t, c)
        mask(c) == region_mask(region, c)
    IN  IF region.weight >= 100
        THEN [value |-> [c \in Cells |-> IF c \in tile THEN RMul(den(c), mask(c)) ELSE acc.value[c]],
              count |-> [c \in Cells |-> IF c \in tile THEN mask(c) ELSE acc.count[c]]]
        ELSE [value |-> [c \in Cells |->
                            IF c \in tile
                            THEN RAdd(acc.value[c], RMul(RMul(den(c), Num(region.weight)), mask(c)))
                            ELSE acc.value[c]],
              count |-> [c \in Cells |->
                            IF c \in tile
                            THEN RAdd(acc.count[c], RMul(Num(region.weight), mask(c)))
                            ELSE acc.count[c]]]

\* latents = np.where(count > 0, value / count, value)
resolve(acc) ==
    [c \in Cells |-> IF RPos(acc.count[c]) THEN RDiv(acc.value[c], acc.count[c]) ELSE acc.value[c]]

\* non-finite cells become 0, finite cells are kept
repair_nan(lat) == [c \in Cells |-> IF IsFinite(lat[c]) THEN lat[c] ELSE Zero]

(***************************************************************************)
(* img2img's choice of the schedule position at which the input is noised  *)
(* and of the suffix of the schedule it denoises over.  The schedule       *)
(* scheduler.timesteps has num_inference_steps entries, the noisiest       *)
(* first; positions are numbered from 0 as in the code.  strength is in    *)
(* hundredths, taken from values for which num_inference_steps * strength  *)
(* is computed exactly in floating point.                                  *)
(***************************************************************************)
Strengths == {0, 25, 50, 75, 100}
Offsets == {0, 1}
\* the steps_offset of the scheduler the loop is followed with
steps_offset == 0

\* the position a[i] reads in an array of n entries
array_index(n, i) == IF i < 0 THEN n + i ELSE i

\* int(num_inference_steps * strength) + offset, capped
init_timestep(num_inference_steps, strength, offset) ==
    LET init == ((num_inference_steps * strength) \div 100) + offset
    IN  IF init < num_inference_steps THEN init ELSE num_inference_steps

\* the position of scheduler.timesteps.numpy()[-init_timestep]
noise_position(num_inference_steps, strength, offset) ==
    array_index(num_inference_steps, 0 - init_timestep(num_inference_steps, strength, offset))

\* t_start = max(num_inference_steps - init_timestep + offset, 0)
t_start(num_inference_steps, strength, offset) ==
    LET t == num_inference_steps - init_timestep(num_inference_steps, strength, offset) + offset
    IN  IF t > 0 THEN t ELSE 0

\* what img2img settles before its loop: where the input is noised, where
\* denoising starts, and the number of entries of timesteps[t_start:]
img2img_schedule(num_inference_steps, strength, offset) ==
    LET t == t_start(num_inference_steps, strength, offset)
    IN  [noised_at |-> noise_position(num_inference_steps, strength, offset),
         t_start |-> t,
         steps |-> IF t < num_inference_steps THEN num_inference_steps - t ELSE 0]

\* what each entry point passes to the pipeline: the method run, the
\* strength (img2img only), whether a callback is passed, and callback_steps
\* (1 unless the caller gives it)
source_txt2img(c) == [mode |-> "txt2img", callback |-> FALSE, callback_steps |-> 1]
blend_img2img(c) == [mode |-> "img2img", strength |-> c.strength, callback |-> c.callback, callback_steps |-> 1]
pipeline_call(c) ==
    IF c.mode = "img2img"
    THEN [mode |-> c.mode, strength |-> c.strength, callback |-> c.callback, callback_steps |-> c.callback_steps]
    ELSE [mode |-> c.mode, callback |-> c.callback, callback_steps |-> c.callback_steps]

\* the timesteps a method iterates over: scheduler.timesteps, or in img2img
\* scheduler.timesteps[t_start:]; given by the position of the first
first_timestep(a, num_inference_steps) ==
    IF a.mode = "img2img" THEN t_start(num_inference_steps, a.strength, steps_offset) ELSE 0

(***************************************************************************)
(* The calls followed through the loop.                                    *)
(***************************************************************************)
NoFeather == <<0, 0>>
\* regions in pixels: the whole canvas, its two left columns, and all but
\* its first column (the last two have coordinates that are not multiples
\* of LATENT_FACTOR)
Full(h, w, weight, feather, prompt) ==
    [top |-> 0, left |-> 0, bottom |-> LATENT_FACTOR * h, right |-> LATENT_FACTOR * w,
     weight |-> weight, feather |-> feather, prompt |-> prompt]
LeftPart(h, w, weight, feather, prompt) ==
    [top |-> 0, left |-> 0, bottom |-> LATENT_FACTOR * h, right |-> 2 * LATENT_FACTOR + 4,
     weight |-> weight, feather |-> feather, prompt |-> prompt]
RightPart(h, w, weight, feather, prompt) ==
    [top |-> 0, left |-> LATENT_FACTOR + 3, bottom |-> LATENT_FACTOR * h, right |-> LATENT_FACTOR * w,
     weight |-> weight, feather |-> feather, prompt |-> prompt]
RegionLists(h, w) ==
    { <<>>,
      << Full(h, w, 50, NoFeather, <<2>>) >>,
      << Full(h, w, 100, NoFeather, <<2>>) >>,
      << Full(h, w, 100, <<1, 1>>, <<2>>) >>,
      << Full(h, w, 100, <<0, 1>>, <<2>>) >>,
      << Full(h, w, 2, <<2, 0>>, <<2>>) >>,
      << Full(h, w, 2, NoFeather, <<2, PLUS>>) >>,
      << Full(h, w, 0, NoFeather, <<2>>) >>,
      << Full(h, w, -1, NoFeather, <<2>>) >>,
      << Full(h, w, -3, NoFeather, <<2>>) >>,
      << LeftPart(h, w, 2, NoFeather, <<3, PLUS>>), RightPart(h, w, 2, NoFeather, <<2, 1>>) >>,
      << LeftPart(h, w, 2, NoFeather, <<2>>), RightPart(h, w, 2, NoFeather, <<3>>) >>,
      << LeftPart(h, w, 100, NoFeather, <<2>>), RightPart(h, w, 100, NoFeather, <<3>>) >>,
      << LeftPart(h, w, 100, NoFeather, <<2>>), RightPart(h, w, 2, NoFeather, <<3>>) >>,
      << RightPart(h, w, 2, NoFeather, <<3>>), LeftPart(h, w, 100, NoFeather, <<2>>) >> }

NoFault == <<>>
\* strength: float = 0.8, in hundredths
DefaultStrength == 80

\* text-to-image calls of the pipeline with regions in the prompt
RegionCallsOn(h, w) ==
    { [entry |-> "pipeline", mode |-> "txt2img",
       height |-> LATENT_FACTOR * h, width |-> LATENT_FACTOR * w, window |-> 2, stride |-> s,
       regions |-> r, prompt |-> p, steps |-> n, seed |-> 0, strength |-> DefaultStrength,
       callback |-> FALSE, callback_steps |-> 1, fault |-> NoFault] :
      s \in 1 .. 2, n \in 1 .. MaxSteps, r \in RegionLists(h, w), p \in {<<1>>, <<3, 1>>} }
RegionCalls == UNION { RegionCallsOn(h, w) : h \in 2 .. MaxSide, w \in 2 .. MaxSide }

\* the sizes in px (height, width) of the images given to img2img, with the
\* window and stride of the call: sides that are multiples of 64, a side
\* that preprocess rounds down, and sides that it rounds down to 0
Img2ImgSizes == { <<64, 64, 6, 2>>, <<72, 64, 6, 2>>, <<16, 24, 2, 1>> }

\* calls without regions, of every method and through both stages, with and
\* without a callback, in which one evaluation of the UNet may go non-finite;
\* img2img over several strengths, the signature's default among them
PlainCalls ==
    { [entry |-> e[1], mode |-> e[2],
       height |-> e[4][1], width |-> e[4][2], window |-> e[4][3], stride |-> e[4][4],
       regions |-> <<>>, prompt |-> <<1>>, steps |-> n, seed |-> sd, strength |-> e[3],
       callback |-> cb[1], callback_steps |-> cb[2], fault |-> f] :
      e \in { <<x[1], x[2], DefaultStrength, <<LATENT_FACTOR * 2, LATENT_FACTOR * 3, 2, 1>>>> :
                x \in { <<"pipeline", "txt2img">>, <<"pipeline", "inpaint">>,
                        <<"source_txt2img", "txt2img">> } }
            \cup { <<"pipeline", "img2img", st, sz>> :
                     st \in {0, 50, DefaultStrength, 100}, sz \in Img2ImgSizes }
            \cup { <<"blend_img2img", "img2img", st, sz>> :
                     st \in {50, DefaultStrength}, sz \in Img2ImgSizes },
      n \in 1 .. MaxSteps, sd \in 0 .. 1,
      cb \in { <<FALSE, 1>>, <<TRUE, 1>>, <<TRUE, 2>> },
      f \in {NoFault} \cup { <<i, 1>> : i \in 0 .. MaxSteps - 1 } }

poolVars == <<workers, pending, submitted, params, pc, job, exc, flags, result,
              dequeued, notes, enqAfter, cancelled>>

LoopInit ==
    /\ call \in RegionCalls \cup PlainCalls
    /\ args = [mode |-> "none"]
    /\ region_embeds = <<>>
    /\ lpc = "start"
    /\ step = 0
    /\ idx = 0
    /\ latents = <<>>
    /\ value = <<>>
    /\ count = <<>>
    /\ before = <<>>
    /\ progress = <<>>
    /\ work = <<>>

\* the position in scheduler.timesteps of the loop's first timestep, the
\* number of iterations, and the timestep t of iteration i
first == first_timestep(args, call.steps)
iterations == call.steps - first
timestep_of(i) == timestep(call.steps, first + i)
\* last = i == (len(self.scheduler.timesteps) - 1)
last == step = call.steps - 1
\* the regions of the call: only text2img parses them out of the prompt
regions == IF args.mode = "txt2img" THEN call.regions ELSE <<>>
acc == [value |-> value, count |-> count]
faulty(n) == call.fault = <<step, n>>

\* the arguments the pipeline method gets from the entry point of a call
entry_args(c) ==
    CASE c.entry = "source_txt2img" -> source_txt2img(c)
      [] c.entry = "blend_img2img" -> blend_img2img(c)
      [] OTHER -> pipeline_call(c)

\* the stage (if any) calls the pipeline method, which prepares the latents,
\* the views and the accumulators; img2img preprocesses its image first and
\* raises, before any of them is made, when a side is rounded down to 0
Begin ==
    /\ lpc = "start"
    /\ args' = entry_args(call)
    /\ IF args'.mode = "img2img" /\ preprocess_check(call.height, call.width) /= "ok"
       THEN /\ lpc' = "raised"
            /\ UNCHANGED <<views, latents, count, value, idx>>
       ELSE /\ views' = get_views(call.height, call.width, call.window, call.stride)
            /\ latents' = get_latents_from_seed(call.seed)
            /\ count' = ZerosLike
            /\ value' = ZerosLike
            /\ idx' = 1
            /\ lpc' = IF args'.mode = "txt2img" /\ call.regions # <<>> THEN "encode"
                      ELSE IF first_timestep(args', call.steps) = call.steps THEN "done"
                      ELSE "fill"
    /\ UNCHANGED <<call, region_embeds, step, before, progress, work, vin, vdone, poolVars, stageVars>>

\* body of the loop that encodes the region prompts
EncodeRegion ==
    /\ lpc = "encode"
    /\ region_embeds' = Append(region_embeds, region_prompt_embeds(regions[idx].prompt, call.prompt))
    /\ IF idx < Len(regions)
       THEN /\ idx' = idx + 1
            /\ lpc' = "encode"
       ELSE /\ idx' = 1
            /\ lpc' = "fill"
    /\ UNCHANGED <<call, args, step, latents, value, count, before, progress, work, views, vin, vdone, poolVars, stageVars>>

\* top of an iteration: count.fill(0); value.fill(0)
StepBegin ==
    /\ lpc = "fill"
    /\ count' = ZerosLike
    /\ value' = ZerosLike
    /\ lpc' = "view"
    /\ idx' = 1
    /\ UNCHANGED <<call, args, region_embeds, step, latents, before, progress, work, views, vin, vdone, poolVars, stageVars>>

\* after the views: regions on every step, the last included
AfterViewsAlways == IF regions # <<>> THEN "region" ELSE "resolve"

\* after the views: regions unless this is the last step
AfterViews == IF ~last /\ regions # <<>> THEN "region" ELSE "resolve"

\* body of `for h_start, h_end, w_start, w_end in views`
ViewStep ==
    /\ lpc = "view"
    /\ LET next == denoise_view(latents, acc, views[idx], timestep_of(step), faulty(idx))
       IN  /\ value' = next.value
           /\ count' = next.count
    /\ work' = Append(work, <<step, "view", idx>>)
    /\ IF idx < Len(views)
       THEN /\ idx' = idx + 1
            /\ lpc' = "view"
       ELSE /\ idx' = 1
            /\ lpc' = AfterViews
    /\ UNCHANGED <<call, args, region_embeds, step, latents, before, progress, views, vin, vdone, poolVars, stageVars>>

\* the regions of a step, were they composed from the last listed to the first
RegionStepReversed ==
    /\ lpc = "region"
    /\ LET r == Len(regions) + 1 - idx
           next == denoise_region(latents, acc, regions[r], region_embeds[r], timestep_of(step))
       IN  /\ value' = next.value
           /\ count' = next.count
    /\ work' = Append(work, <<step, "region", idx>>)
    /\ IF idx < Len(regions)
       THEN /\ idx' = idx + 1
            /\ lpc' = "region"
       ELSE /\ idx' = 1
            /\ lpc' = "resolve"
    /\ UNCHANGED <<call, args, region_embeds, step, latents, before, progress, views, vin, vdone, poolVars, stageVars>>

\* body of `for r, region in enumerate(regions)`
RegionStep ==
    /\ lpc = "region"
    /\ LET next == denoise_region(latents, acc, regions[idx], region_embeds[idx], timestep_of(step))
       IN  /\ value' = next.value
           /\ count' = next.count
    /\ work' = Append(work, <<step, "region", idx>>)
    /\ IF idx < Len(regions)
       THEN /\ idx' = idx + 1
            /\ lpc' = "region"
       ELSE /\ idx' = 1
            /\ lpc' = "resolve"
    /\ UNCHANGED <<call, args, region_embeds, step, latents, before, progress, views, vin, vdone, poolVars, stageVars>>

\* the canvas a step leaves: only text2img repairs it
step_canvas(mode, a) == IF mode = "txt2img" THEN repair_nan(resolve(a)) ELSE resolve(a)

\* end of an iteration: the MultiDiffusion step and the callback
Resolve ==
    /\ lpc = "resolve"
    /\ latents' = step_canvas(args.mode, acc)
    /\ before' = latents
    /\ progress' = IF args.callback /\ step % args.callback_steps = 0
                   THEN Append(progress, [i |-> step, t |-> timestep_of(step), latents |-> latents'])
                   ELSE progress
    /\ step' = step + 1
    /\ lpc' = IF step + 1 = iterations THEN "done" ELSE "fill"
    /\ UNCHANGED <<call, args, region_embeds, idx, value, count, work, views, vin, vdone, poolVars, stageVars>>

NextLoop == Begin \/ EncodeRegion \/ StepBegin \/ ViewStep \/ RegionStep \/ Resolve

InitLoop == PoolIdle /\ vin = [height |-> LATENT_FACTOR, width |-> LATENT_FACTOR, window |-> 1, stride |-> 1] /\ vdone = FALSE /\ views = <<>> /\ LoopInit /\ StageIdle

SpecLoop == InitLoop /\ [][NextLoop]_vars

(***************************************************************************)
(* Single calls of the chain stages and of the pipeline's entry points.    *)
(***************************************************************************)
Images == 1 .. MaxImages
None == 0

\* save_image(server, output, source): the image is written under the output
\* name and the path is returned
save_image(store, output, source) ==
    [storage |-> Append(store, [path |-> output, image |-> source]), dest |-> output]

\* persist_disk, were it to return what save_image returned
persist_disk_returns_dest(in, store) ==
    LET saved == save_image(store, in.output, in.source)
    IN  [storage |-> saved.storage, result |-> saved.dest]

\* persist_disk: dest = save_image(server, output, source); return source
persist_disk(in, store) ==
    LET saved == save_image(store, in.output, in.source)
    IN  [storage |-> saved.storage, result |-> in.source]

\* the calls of persist_disk followed
PersistCalls ==
    { [op |-> "persist_disk", source |-> img, output |-> out, params |-> [seed |-> sd, steps |-> n]] :
      img \in Images, out \in 1 .. 3, sd \in 0 .. 2, n \in 1 .. 3 }

\* the image a text2img call of the pipeline returns: it is determined by
\* the arguments of the call (the latents and the generator come from the seed)
text2img_image(prompt, height, width, seed, guidance_scale, negative_prompt, steps, lpw) ==
    [mode |-> "txt2img", prompt |-> prompt, height |-> height, width |-> width, seed |-> seed,
     guidance_scale |-> guidance_scale, negative_prompt |-> negative_prompt,
     num_inference_steps |-> steps, lpw |-> lpw]

\* source_txt2img, were it to start from the source image when one is given
source_txt2img_from_source(in) ==
    LET prompt == IF in.prompt # None THEN in.prompt ELSE in.params.prompt
        image == text2img_image(prompt, in.size.height, in.size.width, in.params.seed, in.params.cfg,
                                in.params.negative_prompt, in.params.steps, in.params.lpw)
    IN  [warn |-> in.source # None,
         output |-> IF in.source # None THEN [image EXCEPT !.mode = "img2img", !.seed = in.source] ELSE image]

\* source_txt2img: warns if a source image was passed, then runs text2img
\* (directly, or through the pipeline's dispatch) on the prompt, size and
\* parameters
source_txt2img_output(in) ==
    LET prompt == IF in.prompt # None THEN in.prompt ELSE in.params.prompt
    IN  [warn |-> in.source # None,
         output |-> text2img_image(prompt, in.size.height, in.size.width, in.params.seed, in.params.cfg,
                                   in.params.negative_prompt, in.params.steps, in.params.lpw)]

\* the calls of source_txt2img followed
SourceCalls ==
    { [op |-> "source_txt2img", source |-> img, prompt |-> kw,
       size |-> [height |-> LATENT_FACTOR * h, width |-> LATENT_FACTOR],
       params |-> [prompt |-> p, negative_prompt |-> None, seed |-> sd, steps |-> 1, cfg |-> 7, lpw |-> lpw]] :
      img \in Images \cup {None}, kw \in {None, 1, 2}, h \in 1 .. 2, p \in 1 .. 2, sd \in 0 .. 1,
      lpw \in BOOLEAN }

\* isinstance(x, np.ndarray) or isinstance(x, PIL.Image.Image), x being given
\* by its type
is_image(x) == x \in {"ndarray", "Image"}

\* __call__(*args, **kwargs): the method the call is handed to (args[1] of
\* the code is args[2] here, sequences being numbered from 1)
dispatch(a, kw) ==
    IF "image" \in kw \/ (Len(a) > 1 /\ is_image(a[2]))
    THEN IF "mask_image" \in kw \/ (Len(a) > 2 /\ is_image(a[2]))
         THEN "inpaint"
         ELSE "img2img"
    ELSE "text2img"

\* the first three parameters of a method after self, and those of them
\* that have no default
positional(method) ==
    IF method = "text2img" THEN <<"prompt", "height", "width">>
    ELSE IF method = "img2img" THEN <<"prompt", "image", "strength">>
    ELSE <<"prompt", "image", "mask_image">>
required(method) == IF method = "inpaint" THEN {"prompt", "image", "mask_image"} ELSE {}

\* self.<method>(*args, **kwargs) raises TypeError before the method is
\* entered: a keyword the method does not have (of image, mask_image and
\* strength, those not among its first three parameters), a parameter given
\* both by position and by keyword, or a parameter without default not given
binding_raises(method, a, kw) ==
    LET names == positional(method)
    IN  \/ \E k \in kw : \A i \in 1 .. Len(names) : names[i] /= k
        \/ \E i \in 1 .. Len(a) : names[i] \in kw
        \/ \E i \in 1 .. Len(names) : names[i] \in required(method) /\ i > Len(a) /\ names[i] \notin kw

\* the calls of the pipeline followed: up to three positional arguments, by
\* type, the first being the prompt, and the keywords given
PositionalTypes == {"ndarray", "Image", "float", "NoneType"}
DispatchCalls ==
    { [op |-> "__call__", args |-> a, kwargs |-> kw] :
      a \in {<<>>, <<"str">>} \cup { <<"str", x>> : x \in PositionalTypes }
            \cup { <<"str", x, y>> : x \in PositionalTypes, y \in PositionalTypes },
      kw \in SUBSET {"image", "mask_image", "strength"} }

(***************************************************************************)
(* The part of a pipeline call that precedes its denoising loop.  The      *)
(* scheduler's state is the number of inference steps its timesteps were   *)
(* last set for.  A call carries, besides the checked arguments, the       *)
(* latents it supplies ("None", or an array of the "expected" or of a      *)
(* "wrong" shape), the batch size of the encoded image and the number of   *)
(* channels of the prepared mask.  Each operator gives the error raised    *)
(* ("ok" if the loop is reached) and the scheduler state left behind.      *)
(***************************************************************************)
NUM_UNET_INPUT_CHANNELS == 9
NUM_LATENT_CHANNELS == 4

\* scheduler.set_timesteps(num_inference_steps)
set_timesteps(scheduler, num_inference_steps) == num_inference_steps

\* the check of supplied latents against the expected shape
latents_check(supplied) ==
    IF supplied = "wrong" THEN "ValueError: latents shape" ELSE "ok"

\* img2img's check of the prompt list against the batch of encoded images
image_batch_check(prompt, image_batch) ==
    IF prompt.kind = "None" THEN "TypeError: len of None"
    ELSE IF prompt.len > image_batch /\ prompt.len % image_batch = 0 THEN "ok"
    ELSE IF prompt.len > image_batch /\ prompt.len % image_batch /= 0
      THEN "ValueError: cannot duplicate image"
    ELSE "ok"

\* inpaint's check of the channels handed to the unet
channels_check(num_channels_mask, num_channels_masked_image) ==
    IF NUM_LATENT_CHANNELS + num_channels_mask + num_channels_masked_image /= NUM_UNET_INPUT_CHANNELS
      THEN "ValueError: unet input channels"
    ELSE "ok"

\* text2img up to its loop (without regions in the prompt)
text2img_prologue(p, scheduler) ==
    LET c == check_inputs(p.prompt, p.height, p.width, p.callback_steps,
                          p.negative_prompt, p.prompt_embeds, p.negative_prompt_embeds)
        e == encode_prompt_check(p.prompt, p.guidance_scale > 10, p.negative_prompt,
                                 p.prompt_embeds, p.negative_prompt_embeds)
        l == latents_check(p.latents)
    IN  IF c /= "ok" THEN [error |-> c, scheduler |-> scheduler]
        ELSE IF e /= "ok" THEN [error |-> e, scheduler |-> scheduler]
        ELSE IF l /= "ok" THEN [error |-> l, scheduler |-> scheduler]
        ELSE [error |-> "ok", scheduler |-> set_timesteps(scheduler, p.num_inference_steps)]

\* img2img up to its loop
img2img_prologue(p, scheduler) ==
    LET c == check_inputs(p.prompt, p.height, p.width, p.callback_steps,
                          p.negative_prompt, p.prompt_embeds, p.negative_prompt_embeds)
        s == strength_check(p.strength)
        set == set_timesteps(scheduler, p.num_inference_steps)
        r == preprocess_check(p.height, p.width)
        e == encode_prompt_check(p.prompt, p.guidance_scale > 10, p.negative_prompt,
                                 p.prompt_embeds, p.negative_prompt_embeds)
        b == image_batch_check(p.prompt, p.image_batch)
    IN  IF c /= "ok" THEN [error |-> c, scheduler |-> scheduler]
        ELSE IF s /= "ok" THEN [error |-> s, scheduler |-> scheduler]
        ELSE IF r /= "ok" THEN [error |-> r, scheduler |-> set]
        ELSE IF e /= "ok" THEN [error |-> e, scheduler |-> set]
        ELSE IF b /= "ok" THEN [error |-> b, scheduler |-> set]
        ELSE [error |-> "ok", scheduler |-> set]

\* inpaint up to its loop
inpaint_prologue(p, scheduler) ==
    LET c == check_inputs(p.prompt, p.height, p.width, p.callback_steps,
                          p.negative_prompt, p.prompt_embeds, p.negative_prompt_embeds)
        set == set_timesteps(scheduler, p.num_inference_steps)
        e == encode_prompt_check(p.prompt, p.guidance_scale > 10, p.negative_prompt,
                                 p.prompt_embeds, p.negative_prompt_embeds)
        l == latents_check(p.latents)
        u == channels_check(p.num_channels_mask, NUM_LATENT_CHANNELS)
    IN  IF c /= "ok" THEN [error |-> c, scheduler |-> scheduler]
        ELSE IF e /= "ok" THEN [error |-> e, scheduler |-> set]
        ELSE IF l /= "ok" THEN [error |-> l, scheduler |-> set]
        ELSE IF u /= "ok" THEN [error |-> u, scheduler |-> set]
        ELSE [error |-> "ok", scheduler |-> set_timesteps(set, p.num_inference_steps)]

\* the method of the pipeline a call names, up to its loop
prologue(p, scheduler) ==
    IF p.mode = "txt2img" THEN text2img_prologue(p, scheduler)
    ELSE IF p.mode = "img2img" THEN img2img_prologue(p, scheduler)
    ELSE inpaint_prologue(p, scheduler)

\* the arguments of the calls followed up to their loop
PrologueParamSet ==
    JobParamSet \cup
    { [BaseParams EXCEPT !.prompt_embeds = Embeds(1)],
      [BaseParams EXCEPT !.prompt = NoneArg, !.prompt_embeds = Embeds(1)],
      [BaseParams EXCEPT !.prompt = ListArg(3)],
      [BaseParams EXCEPT !.prompt = [kind |-> "int", len |-> 0]],
      [BaseParams EXCEPT !.height = 64, !.width = 64, !.prompt = NoneArg,
                         !.prompt_embeds = Embeds(1)],
      [BaseParams EXCEPT !.height = 64, !.width = 64, !.prompt = ListArg(3)] }

PrologueCalls ==
    { [op |-> "prologue", scheduler |-> sch,
       params |-> [mode |-> m, prompt |-> p.prompt, negative_prompt |-> p.negative_prompt,
                   prompt_embeds |-> p.prompt_embeds,
                   negative_prompt_embeds |-> p.negative_prompt_embeds,
                   height |-> p.height, width |-> p.width, callback_steps |-> p.callback_steps,
                   strength |-> p.strength, guidance_scale |-> p.guidance_scale,
                   num_inference_steps |-> n, latents |-> l, image_batch |-> b,
                   num_channels_mask |-> ch]] :
      p \in PrologueParamSet, m \in {"txt2img", "img2img", "inpaint"}, sch \in 1 .. MaxSteps,
      n \in 1 .. MaxSteps, l \in {"None", "expected", "wrong"}, b \in 1 .. 2, ch \in {1, 3} }


\* the calls of img2img followed for their schedule
ScheduleCalls ==
    { [op |-> "img2img_schedule", num_inference_steps |-> n, strength |-> s, offset |-> o] :
      n \in 1 .. MaxSteps + 1, s \in Strengths, o \in Offsets }

StageInit ==
    /\ sin \in PersistCalls \cup SourceCalls \cup DispatchCalls \cup PrologueCalls
                 \cup ScheduleCalls
    /\ sout = [done |-> FALSE]
    /\ storage = <<>>
    /\ warnings = 0

PersistDisk ==
    /\ sin.op = "persist_disk"
    /\ ~sout.done
    /\ LET r == persist_disk(sin, storage)
       IN  /\ storage' = r.storage
           /\ sout' = [done |-> TRUE, raised |-> FALSE, result |-> r.result]
    /\ UNCHANGED <<sin, warnings, poolVars, viewVars, loopVars>>

SourceTxt2Img ==
    /\ sin.op = "source_txt2img"
    /\ ~sout.done
    /\ LET r == source_txt2img_output(sin)
       IN  /\ warnings' = IF r.warn THEN warnings + 1 ELSE warnings
           /\ sout' = [done |-> TRUE, raised |-> FALSE, result |-> r.output]
    /\ UNCHANGED <<sin, storage, poolVars, viewVars, loopVars>>

Dispatch ==
    /\ sin.op = "__call__"
    /\ ~sout.done
    /\ LET method == dispatch(sin.args, sin.kwargs)
       IN  sout' = [done |-> TRUE, raised |-> binding_raises(method, sin.args, sin.kwargs),
                    result |-> method]
    /\ UNCHANGED <<sin, storage, warnings, poolVars, viewVars, loopVars>>

Prologue ==
    /\ sin.op = "prologue"
    /\ ~sout.done
    /\ LET r == prologue(sin.params, sin.scheduler)
       IN  sout' = [done |-> TRUE, raised |-> r.error /= "ok", result |-> r]
    /\ UNCHANGED <<sin, storage, warnings, poolVars, viewVars, loopVars>>

Schedule ==
    /\ sin.op = "img2img_schedule"
    /\ ~sout.done
    /\ sout' = [done |-> TRUE, raised |-> FALSE,
                result |-> img2img_schedule(sin.num_inference_steps, sin.strength, sin.offset)]
    /\ UNCHANGED <<sin, storage, warnings, poolVars, viewVars, loopVars>>

NextStage == PersistDisk \/ SourceTxt2Img \/ Dispatch \/ Prologue \/ Schedule

InitStage == PoolIdle /\ ViewsIdle /\ LoopIdle /\ StageInit

SpecStage == InitStage /\ [][NextStage]_vars

(***************************************************************************)
(* Properties of the worker loop.                                          *)
(***************************************************************************)
\* what callers have been told of a job, and the state that amounts to
Outcome(j) == [i \in 1 .. Len(notes[j]) |-> notes[j][i].kind]
JobState(j) == IF notes[j] = <<>> THEN "pending" ELSE notes[j][Len(notes[j])].kind
\* the worker that took the job off the queue (0: none yet)
Owner(j) ==
    IF Takes(j) = 0 THEN 0
    ELSE dequeued[CHOOSE i \in 1 .. Len(dequeued) : dequeued[i].job = j].worker
\* the job a worker took last (0: none yet)
LastTake(w) ==
    LET mine == { i \in 1 .. Len(dequeued) : dequeued[i].worker = w }
    IN  IF mine = {} THEN 0
        ELSE dequeued[CHOOSE i \in mine : \A k \in mine : k <= i].job
\* a validation error, as the arguments themselves show it: a height or
\* width not divisible by 8, a non-positive callback interval, a strength
\* outside [0, 1] in image-to-image, or prompt and negative prompt lists of
\* different lengths under classifier-free guidance
ValidationError(p) ==
    \/ p.height % 8 /= 0
    \/ p.width % 8 /= 0
    \/ p.callback_steps <= 0
    \/ (p.mode = "img2img" /\ (p.strength < 0 \/ p.strength > 100))
    \/ /\ p.guidance_scale > 10
       /\ p.prompt.kind = "list" /\ p.negative_prompt.kind = "list"
       /\ p.prompt.len /= p.negative_prompt.len
Invalid(j) == j <= submitted /\ ValidationError(params[j])

\* C1: when the pipeline of a worker's job has raised, every further step
\* of that worker stays in the loop: it handles the exception, publishes
\* the final notification and returns to the pending queue; it never
\* leaves worker_init.  (Violated: `except Exception` lets a SystemExit or
\* KeyboardInterrupt pass, and the worker leaves worker_init after the
\* final notification.)
C1_RaiseKeepsWorkerInLoop ==
    [][\A w \in WorkerIds : \A j \in JobIds :
          (w \in workers /\ job[w] = j /\ Raised(j))
              => pc'[w] \in {"except", "finally", "get"}]_vars

\* what the worker does hold to: it stays in the loop when what the
\* pipeline raised is an Exception; a SystemExit or KeyboardInterrupt
\* passes the handler, and the worker publishes the final notification and
\* then leaves worker_init.
C1_CaughtRaiseKeepsWorkerInLoop ==
    [][\A w \in WorkerIds : \A j \in JobIds :
          (w \in workers /\ job[w] = j /\ Raised(j))
              => IF exc[w] = "BaseException"
                 THEN pc'[w] \in {"finally", "dead"}
                      /\ (pc'[w] = "dead" => "finished" \in Kinds(j)')
                 ELSE pc'[w] \in {"except", "finally", "get"}]_vars

\* on one worker a job's pipeline raised, and a job put on the
\* queue after that job's final notification was then taken by the same
\* worker, returned normally and got its final notification.
C1_LaterJobFinishes ==
    \E a \in JobIds : \E b \in JobIds :
        /\ Raised(a) /\ a < b /\ enqAfter[b]
        /\ Owner(a) = Owner(b) /\ Owner(a) /= 0
        /\ result[b] = "returned" /\ Outcome(b) = <<"started", "finished">>

\* C2: a job whose pipeline raised ends in the state failed, and what is
\* published for it differs from what is published for a job whose pipeline
\* returned.
C2_RaisedEndsFailed ==
    \A j \in JobIds :
        (Raised(j) /\ Handled(j)) =>
            /\ JobState(j) = "failed"
            /\ \A k \in JobIds :
                 (result[k] = "returned" /\ Handled(k)) => Outcome(k) /= Outcome(j)

\* C3: for every job a worker took, the final notification is published
\* exactly once by the time the worker lets go of the job, never more than
\* once, and never while the job's pipeline is still running or still to be
\* called.
C3_FinishedExactlyOnce ==
    \A j \in JobIds :
        /\ Count(j, "finished") <= 1
        /\ Handled(j) => Count(j, "finished") = 1
        /\ "finished" \in Kinds(j) => (Handled(j) /\ result[j] /= "running")

\* C3 witness: one job's pipeline returned, another's raised, and each has
\* its one final notification.
C3_BothOutcomesFinished ==
    \E a \in JobIds : \E b \in JobIds :
        /\ result[a] = "returned" /\ Raised(b)
        /\ Count(a, "finished") = 1 /\ Count(b, "finished") = 1

\* C4: what is published for a job follows pending -> started ->
\* (finished | failed): started at most once, nothing after the terminal
\* notification, and no terminal notification without started before it.
C4_StrictLifecycle ==
    \A j \in JobIds :
        Outcome(j) \in { <<>>, <<"started">>, <<"started", "finished">>,
                         <<"started", "failed">> }

\* C5: each job is taken off the shared queue at most once, is held by at
\* most one worker, and is started and finished only by the worker that
\* took it.
C5_OneWorkerPerJob ==
    \A j \in JobIds :
        /\ Takes(j) <= 1
        /\ Cardinality({ w \in workers : job[w] = j }) <= 1
        /\ Count(j, "started") <= 1
        /\ \A i \in 1 .. Len(notes[j]) : notes[j][i].worker = Owner(j)

\* C5 witness: two workers run the pipelines of two different jobs at the
\* same time.
C5_TwoWorkersBusy ==
    \E w \in workers : \E v \in workers :
        w /= v /\ pc[w] = "run" /\ pc[v] = "run" /\ job[w] /= job[v]

\* C6: while a job is published as started and not yet as finished, the
\* worker that started it still holds it, has taken no other job since, and
\* has no other job open.
C6_SerialPerWorker ==
    \A j \in JobIds :
        Outcome(j) = <<"started">> =>
            LET w == notes[j][1].worker
            IN  /\ job[w] = j
                /\ LastTake(w) = j
                /\ \A k \in JobIds :
                     (Outcome(k) = <<"started">> /\ notes[k][1].worker = w) => k = j

\* C6 witness: a worker runs a started job while another job waits in the
\* queue.
C6_BusyWhileQueued ==
    \E w \in workers :
        pc[w] = "run" /\ Outcome(job[w]) = <<"started">> /\ pending /= <<>>

\* C7: jobs leave the queue in the order they were put on it (job ids are
\* given in that order): the i-th job taken is the i-th job submitted.  With
\* a single worker, a job is not taken, and so not started, before every job
\* submitted earlier has its final notification.
C7_FifoOrder ==
    /\ \A i \in 1 .. Len(dequeued) : dequeued[i].job = i
    /\ Cardinality(workers) = 1 =>
         \A a \in JobIds : \A b \in JobIds :
            (a < b /\ Takes(b) > 0) =>
                /\ "finished" \in Kinds(a)
                /\ Handled(a)

\* C7 witness: with a single worker, the second job was put on the queue
\* before the first had finished, and is started after the first's final
\* notification.
C7_SecondAfterFirst ==
    /\ workers = {1}
    /\ ~enqAfter[2]
    /\ "finished" \in Kinds(1)
    /\ "started" \in Kinds(2)

\* C8: at the step in which a job's pipeline is called, the worker's
\* cancellation flag is clear and started has been published for the job.
C8_ClearThenStartedThenRun ==
    [][\A w \in WorkerIds : \A j \in JobIds :
          (w \in workers /\ job[w] = j /\ result[j] = "none" /\ result'[j] /= "none")
              => (~flags[w] /\ Outcome(j) = <<"started">>)]_vars

\* C8 witness: a worker whose previous job was cancelled while it ran is
\* running the next job's pipeline with its flag clear.
C8_StaleFlagCleared ==
    \E w \in workers : \E a \in JobIds :
        /\ cancelled[a] /\ Owner(a) = w /\ Handled(a)
        /\ pc[w] = "run" /\ ~flags[w] /\ job[w] /= a

\* C9: no started notification is ever published for a job whose arguments
\* fail validation.
C9_InvalidNeverStarts ==
    \A j \in JobIds : Invalid(j) => "started" \notin Kinds(j)

\* C9, amended: a job whose arguments fail the pipeline's entry checks is
\* rejected inside the pipeline, before it runs any denoising, but only
\* after started has been published for it; the worker then publishes its
\* final notification.
C9_InvalidRejectedAfterStart ==
    \A j \in JobIds :
        Invalid(j) =>
            /\ result[j] \in {"none", "rejected"}
            /\ result[j] = "rejected" => "started" \in Kinds(j)
            /\ Handled(j) => "finished" \in Kinds(j)

\* C9 witness: a job with invalid arguments was started, rejected and
\* finished.
C9_RejectedJobDone ==
    \E j \in JobIds :
        Invalid(j) /\ result[j] = "rejected" /\ Outcome(j) = <<"started", "finished">>

(***************************************************************************)
(* Properties of the denoising loop.                                       *)
(***************************************************************************)
\* the timestep of the current iteration
Now == timestep_of(step)
\* every base view of the current step has just been accumulated
ViewsDone == work # <<>> /\ work[Len(work)] = <<step, "view", Len(views)>>
\* the views that contain a cell
Covering(c) == { n \in 1 .. Len(views) : Covers(views[n], c[1], c[2]) }
\* the sum, over a set of views, of what each of them makes of a cell when
\* it is denoised from the canvas lat in iteration i
RECURSIVE SumOfViews(_, _, _, _)
SumOfViews(S, lat, c, i) ==
    IF S = {} THEN Zero
    ELSE LET n == CHOOSE m \in S : TRUE
         IN  RAdd(latents_view_denoised(lat, views[n], timestep_of(i), call.fault = <<i, n>>, c),
                  SumOfViews(S \ {n}, lat, c, i))
\* the accumulators after the first n views of a given order
RECURSIVE accumulate_views(_, _, _)
accumulate_views(lat, order, n) ==
    IF n = 0 THEN [value |-> ZerosLike, count |-> ZerosLike]
    ELSE denoise_view(lat, accumulate_views(lat, order, n - 1), views[order[n]], Now, faulty(order[n]))
\* orders of the views other than the pipeline's: the reverse, and each
\* exchange of two neighbours
Reversed == [n \in 1 .. Len(views) |-> Len(views) + 1 - n]
Exchanged(j) == [n \in 1 .. Len(views) |-> IF n = j THEN j + 1 ELSE IF n = j + 1 THEN j ELSE n]
OtherOrders == {Reversed} \cup { Exchanged(j) : j \in 1 .. Len(views) - 1 }

\* C13: within one step the accumulation does not depend on the order of the
\* views: every view is denoised from the canvas as it stood when the step
\* began, and value and count are commutative sums over the views.
C13_OrderIndependent ==
    ViewsDone =>
        /\ \A c \in Cells :
              /\ value[c] = SumOfViews(Covering(c), latents, c, step)
              /\ count[c] = Num(Cardinality(Covering(c)))
        /\ \A order \in OtherOrders : accumulate_views(latents, order, Len(views)) = acc

\* a second step has accumulated four views that all overlap in one cell
C13_OverlapAccumulated ==
    /\ ViewsDone
    /\ step = 1
    /\ Len(views) = 4
    /\ \E c \in Cells : count[c] = Num(4) /\ IsFinite(value[c]) /\ value[c] # Zero

\* the canvas is the outcome of a step that composed regions: a step of
\* text2img other than the last has been resolved (before is the canvas that
\* step began with, Then its timestep)
Composed == args.mode = "txt2img" /\ 1 <= step /\ step < call.steps
Then == timestep_of(step - 1)
RegionCells(r) ==
    LET box == region_box(regions[r]) IN Slice(box[1], box[2], box[3], box[4])
LaterRegions(r, c) == { q \in r + 1 .. Len(regions) : c \in RegionCells(q) }

\* C14 (as stated): a region of weight >= 100 overrides prior content: after
\* the step's composition every cell of its rectangle where its feather mask
\* is 1 equals the region's denoised value.
C14_OverrideWins ==
    Composed =>
        \A r \in 1 .. Len(regions) : regions[r].weight >= 100 =>
            \A c \in RegionCells(r) : region_mask(regions[r], c) = One =>
                latents[c] = latents_region_denoised(before, regions[r], region_embeds[r], Then, c)

\* C14 (amended): the same, at the cells that no region listed after it
\* contains; a later region adds to, or replaces, what the override wrote.
C14_OverrideWinsUnlessLater ==
    Composed =>
        \A r \in 1 .. Len(regions) : regions[r].weight >= 100 =>
            \A c \in RegionCells(r) :
                region_mask(regions[r], c) = One /\ LaterRegions(r, c) = {} =>
                    latents[c] = latents_region_denoised(before, regions[r], region_embeds[r], Then, c)

\* a feathered override region has been composed: where its mask is 1 the
\* canvas is its denoised value, and that differs from the base views' mean
C14_FeatheredOverrideComposed ==
    /\ Composed
    /\ \E r \in 1 .. Len(regions) :
          /\ regions[r].weight >= 100
          /\ regions[r].feather[1] > 0
          /\ \E c \in RegionCells(r) :
                /\ region_mask(regions[r], c) = One
                /\ LaterRegions(r, c) = {}
                /\ latents[c] = latents_region_denoised(before, regions[r], region_embeds[r], Then, c)
                /\ latents[c] # RDiv(SumOfViews(Covering(c), before, c, step - 1), Num(Cardinality(Covering(c))))
          /\ \E c \in RegionCells(r) : region_mask(regions[r], c) # One

\* the prompt holds two regions of equal weight, neither feathered
TwoEqualRegions ==
    /\ Len(regions) = 2
    /\ regions[1].weight = regions[2].weight
    /\ regions[1].feather[1] = 0
    /\ regions[2].feather[1] = 0
Overlap == RegionCells(1) \cap RegionCells(2)
RegionValue(r, c) == latents_region_denoised(before, regions[r], region_embeds[r], Then, c)
MeanOfRegions(c) == RDiv(RAdd(RegionValue(1, c), RegionValue(2, c)), Num(2))
BaseSum(c) == SumOfViews(Covering(c), before, c, step - 1)
BaseCount(c) == Cardinality(Covering(c))

OneRegionOfFifty ==
    /\ Len(regions) = 1
    /\ regions[1].weight = 50
    /\ regions[1].feather[1] = 0
    /\ RegionCells(1) = Cells
\* the base prediction of a cell: the mean of the views covering it
BasePrediction(c) == RDiv(BaseSum(c), Num(BaseCount(c)))
Merged(b, n, r, w) == RDiv(RAdd(RMul(b, Num(n)), RMul(r, Num(w))), Num(n + w))

\* C16 (as stated): with a single region of weight 50, no feather, covering
\* the full canvas, a cell with base prediction B and region prediction R is
\* merged to (B * 1 + R * 50) / (1 + 50).
C16_BaseWeighsOne ==
    Composed /\ OneRegionOfFifty =>
        \A c \in Cells : BaseCount(c) > 0 =>
            latents[c] = Merged(BasePrediction(c), 1, RegionValue(1, c), 50)

\* C16 (amended): the base weighs as many as the views covering the cell: the
\* cell is merged to (B * n + R * 50) / (n + 50), B being the mean of the n
\* base views; this is (B * 1 + R * 50) / (1 + 50) where one view covers it.
C16_BaseWeighsItsViews ==
    Composed /\ OneRegionOfFifty =>
        \A c \in Cells :
            /\ BaseCount(c) > 0 =>
                  latents[c] = Merged(BasePrediction(c), BaseCount(c), RegionValue(1, c), 50)
            /\ BaseCount(c) = 1 =>
                  latents[c] = Merged(BasePrediction(c), 1, RegionValue(1, c), 50)

\* the weight-50 region was composed over a canvas with a cell under one
\* view and a cell under four
C16_FiftyComposed ==
    /\ Composed
    /\ OneRegionOfFifty
    /\ \E c \in Cells :
          /\ BaseCount(c) = 1
          /\ BasePrediction(c) # RegionValue(1, c)
          /\ latents[c] = Merged(BasePrediction(c), 1, RegionValue(1, c), 50)
    /\ \E c \in Cells :
          /\ BaseCount(c) = 4
          /\ latents[c] # Merged(BasePrediction(c), 1, RegionValue(1, c), 50)

\* an iteration has reset its accumulators and not yet taken its first view
StepStarted == lpc = "view" /\ idx = 1 /\ (work = <<>> \/ work[Len(work)][1] # step)
\* an iteration has just been resolved: value and count are still those it
\* accumulated, latents is the canvas it left
StepResolved == lpc \in {"fill", "done"} /\ step >= 1

\* at the start of every step value and count are zero everywhere, and the
\* step resolves each cell to value / count where count > 0 and to value
\* elsewhere
FreshAndResolved ==
    /\ StepStarted => value = ZerosLike /\ count = ZerosLike
    /\ StepResolved =>
          \A c \in Cells :
              /\ RPos(count[c]) /\ IsFinite(value[c]) => latents[c] = RDiv(value[c], count[c])
              /\ ~RPos(count[c]) => latents[c] = value[c]

\* C17: at the start of every step value and count are zero everywhere;
\* the step resolves each cell to value / count where count > 0 and to value
\* elsewhere, and a cell whose count is not above 0 has value zero, so it
\* resolves to zero.  (Violated: a region of weight -1 over a cell under
\* one view leaves count 0 and value B - R there, which is resolved as it
\* is.)
C17_FreshAccumulators ==
    /\ StepStarted => value = ZerosLike /\ count = ZerosLike
    /\ StepResolved =>
          \A c \in Cells :
              /\ RPos(count[c]) /\ IsFinite(value[c]) => latents[c] = RDiv(value[c], count[c])
              /\ ~RPos(count[c]) => value[c] = Zero /\ latents[c] = Zero

\* a later step was resolved with a cell of count 0, left at zero, and a
\* cell under two views, averaged from its count
C17_UncoveredCellResolved ==
    /\ StepResolved
    /\ step >= 2
    /\ \E c \in Cells : count[c] = Zero /\ latents[c] = Zero
    /\ \E c \in Cells : count[c] = Num(2) /\ latents[c] = RDiv(value[c], Num(2)) /\ latents[c] # Zero

\* C18: after the resolution of every step, in every generation mode
\* (text2img, img2img, inpaint), a non-finite cell of the canvas has been
\* replaced by the neutral value 0 and a finite cell is unchanged.
C18_RepairedInEveryMode ==
    StepResolved =>
        \A c \in Cells :
            LET resolved == resolve(acc)[c]
            IN  latents[c] = IF IsFinite(resolved) THEN resolved ELSE Zero

\* the accumulators the base views alone give the iteration just resolved
BaseOnly == [value |-> [c \in Cells |-> BaseSum(c)], count |-> [c \in Cells |-> Num(BaseCount(c))]]
\* the entry of work before position p (none before the first)
Previous(p) == IF p = 1 THEN <<-1, "none", 0>> ELSE work[p - 1]

\* C19: regions are processed only after all base views of the step, in the
\* order the prompt lists them, and only on non-final steps: on the last
\* step no region is processed and the final canvas comes from the base
\* views alone.
C19_RegionsAfterViews ==
    /\ \A p \in 1 .. Len(work) :
          LET e == work[p]
          IN  /\ e[2] = "region" =>
                    /\ e[1] < call.steps - 1
                    /\ e[3] = 1 => Previous(p) = <<e[1], "view", Len(views)>>
                    /\ e[3] > 1 => Previous(p) = <<e[1], "region", e[3] - 1>>
              /\ e[2] = "view" /\ e[3] > 1 => Previous(p) = <<e[1], "view", e[3] - 1>>
              /\ e[2] = "view" /\ e[3] = 1 /\ e[1] > 0 =>
                    Previous(p) = IF regions # <<>>
                                  THEN <<e[1] - 1, "region", Len(regions)>>
                                  ELSE <<e[1] - 1, "view", Len(views)>>
    /\ lpc = "done" /\ step >= 1 => latents = step_canvas(args.mode, BaseOnly)

\* a call with two regions has finished three steps: both regions ran, in
\* order, on the first two, and the canvas differs from what the regions
\* would have left
C19_RegionsRanThenBaseOnly ==
    /\ lpc = "done"
    /\ call.steps = 3
    /\ Len(regions) = 2
    /\ \E p \in 2 .. Len(work) : work[p - 1] = <<1, "region", 1>> /\ work[p] = <<1, "region", 2>>
    /\ work[Len(work)] = <<2, "view", Len(views)>>
    /\ latents # step_canvas(args.mode, denoise_region(before, denoise_region(before, BaseOnly, regions[1], region_embeds[1], 1), regions[2], region_embeds[2], 1))

\* the steps at which a caller that supplied a callback expects an event
\* (callback_steps is the pipeline's argument; the stages leave it at 1)
ExpectedSteps ==
    LET every == IF call.entry = "pipeline" THEN call.callback_steps ELSE 1
    IN  { i \in 0 .. iterations - 1 : i % every = 0 }

\* C20: a progress event is emitted exactly at the step indices i with
\* i mod callback_steps = 0, in increasing order, in every diffusion stage,
\* generate-from-noise included.
C20_ProgressAtEveryInterval ==
    /\ \A n \in 1 .. Len(progress) - 1 : progress[n].i < progress[n + 1].i
    /\ lpc = "done" /\ call.callback => { progress[n].i : n \in 1 .. Len(progress) } = ExpectedSteps

\* the text a region's embedding is to be made of
OwnText(region_prompt) ==
    IF region_prompt[Len(region_prompt)] = PLUS
    THEN SubSeq(region_prompt, 1, Len(region_prompt) - 1) \o <<SPACE>> \o call.prompt
    ELSE region_prompt

\* C21: the embedding of a region is computed from the region's own prompt
\* alone, or, if that prompt ends in "+", from the prompt without the "+"
\* joined to the global prompt; every region is encoded exactly once, before
\* the first denoising step, and the embedding used for it is the same at
\* every step.
C21_RegionEmbeddings ==
    /\ lpc = "encode" => step = 0 /\ work = <<>> /\ Len(region_embeds) = idx - 1
    /\ lpc \in {"fill", "view", "region", "resolve", "done"} =>
          /\ Len(region_embeds) = Len(regions)
          /\ \A r \in 1 .. Len(regions) :
                region_embeds[r] = encode_prompt(OwnText(regions[r].prompt))

\* a second step is composing two regions, the first additive and the second
\* not, under a global prompt of two tokens
C21_AdditiveAndOwnEncoded ==
    /\ lpc = "region"
    /\ step = 1
    /\ idx = 2
    /\ call.prompt = <<3, 1>>
    /\ regions[1].prompt = <<3, PLUS>>
    /\ regions[2].prompt = <<2, 1>>
    /\ region_embeds = <<encode_prompt(<<3, SPACE, 3, 1>>), encode_prompt(<<2, 1>>)>>
    /\ region_embeds[1] # encode_prompt(<<3>>)

(***************************************************************************)
(* Properties of the stages and entry points.                              *)
(***************************************************************************)
\* C22: the persist stage writes its input image through the storage
\* capability exactly once and returns that same image unchanged, for every
\* input image and every parameter set.
C22_PersistPassesThrough ==
    sin.op = "persist_disk" /\ sout.done =>
        /\ storage = << [path |-> sin.output, image |-> sin.source] >>
        /\ sout.result = sin.source
        /\ ~sout.raised

\* an image was persisted under a name other than its own number
C22_ImagePersisted ==
    /\ sin.op = "persist_disk"
    /\ sout.done
    /\ sin.source = 3
    /\ sin.output = 2
    /\ Len(storage) = 1
    /\ sout.result = 3

\* the image text2img makes of the prompt, size and parameters of the stage
\* call, whatever its source image
FromNoise ==
    [mode |-> "txt2img",
     prompt |-> IF sin.prompt # None THEN sin.prompt ELSE sin.params.prompt,
     height |-> sin.size.height, width |-> sin.size.width, seed |-> sin.params.seed,
     guidance_scale |-> sin.params.cfg, negative_prompt |-> sin.params.negative_prompt,
     num_inference_steps |-> sin.params.steps, lpw |-> sin.params.lpw]

\* C23: the generate-from-noise stage ignores any input image: for the same
\* parameters, seed and size its output is the same whether or not a source
\* image is supplied, and a supplied image only causes a warning.
C23_SourceIgnored ==
    sin.op = "source_txt2img" /\ sout.done =>
        /\ sout.result = FromNoise
        /\ ~sout.raised
        /\ storage = <<>>
        /\ warnings = IF sin.source # None THEN 1 ELSE 0

\* the stage ran with a source image and warned
C23_SourceGivenAndWarned ==
    /\ sin.op = "source_txt2img"
    /\ sout.done
    /\ sin.source = 2
    /\ warnings = 1
    /\ sout.result.mode = "txt2img"

\* a region was composed over the cell in the step just resolved
Touched(c) == Composed /\ \E r \in 1 .. Len(regions) : c \in RegionCells(r)

\* C24: after the base views of a step, count at each cell is the number of
\* views containing it and value the sum of their denoised outputs there, so
\* a covered cell no region touches becomes the plain average of its views;
\* in text2img, img2img and inpaint alike.
C24_PlainAverage ==
    /\ ViewsDone =>
          \A c \in Cells :
              /\ count[c] = Num(Cardinality(Covering(c)))
              /\ value[c] = SumOfViews(Covering(c), latents, c, step)
    /\ StepResolved =>
          \A c \in Cells :
              BaseCount(c) > 0 /\ ~Touched(c) /\ IsFinite(BaseSum(c)) =>
                  latents[c] = RDiv(BaseSum(c), Num(BaseCount(c)))

\* an inpaint step left a cell under two views at the average of the two
C24_InpaintAveraged ==
    /\ StepResolved
    /\ args.mode = "inpaint"
    /\ \E c \in Cells :
          /\ BaseCount(c) = 2
          /\ count[c] = Num(2)
          /\ latents[c] = RDiv(BaseSum(c), Num(2))
          /\ latents[c] # BaseSum(c)

\* an image, a mask was supplied to the call: by keyword, or as the second,
\* the third positional argument
ImageSupplied == "image" \in sin.kwargs \/ (Len(sin.args) > 1 /\ is_image(sin.args[2]))
MaskSupplied == "mask_image" \in sin.kwargs \/ (Len(sin.args) > 2 /\ is_image(sin.args[3]))

\* C25: calling the pipeline chooses text-to-image when no image is
\* supplied, image-to-image when an image but no mask is supplied, and
\* inpaint exactly when both an image and a mask are supplied (of the calls
\* whose arguments the chosen method accepts).
C25_DispatchByArguments ==
    sin.op = "__call__" /\ sout.done /\ ~sout.raised =>
        sout.result = IF ~ImageSupplied THEN "text2img"
                      ELSE IF MaskSupplied THEN "inpaint" ELSE "img2img"

\* C26: a call that raises a validation error, in text2img, img2img or
\* inpaint, has raised it before the scheduler's timesteps were set, so
\* the scheduler is left in the state it had when the call was made.
\* The errors meant are those of check_inputs, of the strength, of the
\* latents shape and of the channel count.  (Violated: inpaint sets the
\* timesteps before its checks of latents shape and channel count.)
ValidationErrors ==
    {"ValueError: height and width", "ValueError: callback_steps",
     "ValueError: both prompt and prompt_embeds", "ValueError: neither prompt nor prompt_embeds",
     "ValueError: prompt type",
     "ValueError: both negative_prompt and negative_prompt_embeds", "ValueError: embeds shape",
     "ValueError: strength", "ValueError: latents shape", "ValueError: unet input channels"}
C26_RejectedCallLeavesScheduler ==
    (sin.op = "prologue" /\ sout.done /\ sout.result.error \in ValidationErrors)
        => sout.result.scheduler = sin.scheduler

\* C27: in img2img, no lower strength noises the input at an earlier
\* (noisier) position of the schedule than the strength of the call does.
\* (Violated: a strength below 1/n with offset 0 gives init_timestep = 0,
\* and timesteps[-0] is the first, noisiest entry.)
C27_LowerStrengthNotNoisier ==
    (sin.op = "img2img_schedule" /\ sout.done)
        => \A s \in Strengths :
             s < sin.strength
               => noise_position(sin.num_inference_steps, s, sin.offset) >= sout.result.noised_at

\* every region of the current step has just been composed
RegionsDone == work # <<>> /\ work[Len(work)] = <<step, "region", Len(regions)>>
\* the last override region listed that contains a cell (0 if there is none)
Overrides(c) == { r \in 1 .. Len(regions) : regions[r].weight >= 100 /\ c \in RegionCells(r) }
LastOverride(c) == IF Overrides(c) = {} THEN 0 ELSE CHOOSE r \in Overrides(c) : \A q \in Overrides(c) : q <= r
\* what a region makes of a cell in the current step, and its mask there
RegionNow(r, c) == latents_region_denoised(latents, regions[r], region_embeds[r], Now, c)
MaskNow(r, c) == region_mask(regions[r], c)
\* the weighted contributions of a set of blended regions to value and count
RECURSIVE SumOfRegionValues(_, _)
SumOfRegionValues(S, c) ==
    IF S = {} THEN Zero
    ELSE LET r == CHOOSE q \in S : \A p \in S : q <= p
         IN  RAdd(RMul(RMul(RegionNow(r, c), Num(regions[r].weight)), MaskNow(r, c)),
                  SumOfRegionValues(S \ {r}, c))
RECURSIVE SumOfRegionCounts(_, _)
SumOfRegionCounts(S, c) ==
    IF S = {} THEN Zero
    ELSE LET r == CHOOSE q \in S : \A p \in S : q <= p
         IN  RAdd(RMul(Num(regions[r].weight), MaskNow(r, c)), SumOfRegionCounts(S \ {r}, c))
\* the views in the pipeline's own order
Listed == [n \in 1 .. Len(views) |-> n]

\* C29: when the regions of a step have been composed, a cell inside an
\* override region holds what the last such region listed wrote (its
\* denoised value times its mask, and its mask), without the base views and
\* the regions listed before it, plus the weighted contribution of every
\* region listed after it; a cell inside no override region holds the sum
\* of the base views plus the weighted contribution of every region that
\* contains it.
C29_LastOverrideThenLater ==
    RegionsDone =>
        \A c \in Cells :
            LET o == LastOverride(c)
                later == LaterRegions(o, c)
            IN  IF o > 0
                THEN /\ value[c] = RAdd(RMul(RegionNow(o, c), MaskNow(o, c)), SumOfRegionValues(later, c))
                     /\ count[c] = RAdd(MaskNow(o, c), SumOfRegionCounts(later, c))
                ELSE /\ value[c] = RAdd(SumOfViews(Covering(c), latents, c, step), SumOfRegionValues(later, c))
                     /\ count[c] = RAdd(Num(Cardinality(Covering(c))), SumOfRegionCounts(later, c))

\* a blended region was composed after an override region it overlaps: in
\* the overlap the accumulators hold the override and the later region but
\* not the base views, and composing the two in the other order would have
\* left different accumulators
C29_OrderMatters ==
    /\ RegionsDone
    /\ Len(regions) = 2
    /\ regions[1].weight >= 100
    /\ regions[2].weight < 100
    /\ \E c \in RegionCells(1) \cap RegionCells(2) :
          /\ Covering(c) # {}
          /\ count[c] = RAdd(MaskNow(1, c), RMul(Num(regions[2].weight), MaskNow(2, c)))
          /\ count[c] # RAdd(Num(Cardinality(Covering(c))), RMul(Num(regions[2].weight), MaskNow(2, c)))
          /\ LET base == accumulate_views(latents, Listed, Len(views))
                 other == denoise_region(latents,
                                         denoise_region(latents, base, regions[2], region_embeds[2], Now),
                                         regions[1], region_embeds[1], Now)
             IN  /\ other.count[c] = MaskNow(1, c)
                 /\ other.value[c] # value[c]

(***************************************************************************)
(* Progress of the worker loop under fair scheduling.                      *)
(***************************************************************************)
Pending(j) == \E i \in 1 .. Len(pending) : pending[i] = j

\* C30: every job on the pending queue is eventually taken by a worker and
\* eventually gets its finished notification, whatever became of the jobs
\* before it.  (Violated: a job whose pipeline raises SystemExit or
\* KeyboardInterrupt ends its worker; when that was the last worker, the
\* jobs still queued are never taken.)
C30_PendingJobFinishes ==
    \A j \in JobIds : Pending(j) ~> (Takes(j) > 0 /\ "finished" \in Kinds(j))

\* every started worker has left worker_init on a SystemExit or
\* KeyboardInterrupt
AllWorkersExited == \A w \in workers : pc[w] = "dead" /\ exc[w] = "BaseException"

\* what the pool does hold to: a queued job is taken and finished as long
\* as a worker is left; jobs that raised an Exception hold nothing up.
C30_PendingJobFinishesUnlessExited ==
    \A j \in JobIds :
        Pending(j) ~> ((Takes(j) > 0 /\ "finished" \in Kinds(j)) \/ AllWorkersExited)

\* every job was submitted, taken and finished, the first of them having
\* raised in its pipeline and a later one having been taken after that
C30_AllFinishedAfterFailure ==
    /\ submitted = NumJobs
    /\ pending = <<>>
    /\ \A j \in JobIds : Takes(j) = 1 /\ "finished" \in Kinds(j)
    /\ Raised(1)
    /\ \E j \in JobIds : j > 1 /\ enqAfter[j] /\ result[j] = "returned"

====
